---- MODULE Spec2Model ----
(***************************************************************************)
(* Model of the clip-replacement pipeline of src/Davinci.py                *)
(* (DaVinciAutomation.process_job and the steps it calls).                 *)
(*                                                                         *)
(* The DaVinci Resolve application is the environment.  Its state (the     *)
(* items of video track V3, the media-pool assets behind them, the bins of *)
(* the media pool) is part of the model's state, and what its scripting    *)
(* calls answer (True/False/None, a missing method, an exception inside a  *)
(* try block of the code) is chosen nondeterministically where the call is *)
(* made.  A call that the code guards only by the catch-all handler of its *)
(* function (the read-only queries GetItemListInTrack, GetStart, GetEnd,   *)
(* the bin creation) returns normally; its failure answer is None where    *)
(* the code tests for it.  Every call to the application that the          *)
(* properties speak about is appended to the log `calls`, which plays the  *)
(* role of a spy.                                                          *)
(*                                                                         *)
(* Job descriptions are well-formed: every key of `clips` is a string of   *)
(* decimal digits and every clip record carries filename and fullPath.     *)
(*                                                                         *)
(* Spec takes _render_project as one step of process_job.  SpecRender      *)
(* starts where process_job calls _render_project and takes the function   *)
(* step by step, with its wait loop; SpecRenderLive adds that the code     *)
(* keeps running.  SpecIntegrity is the integrity check alone.  SpecMain   *)
(* is the whole program: main, the handshake, process_job on the job of    *)
(* each job file, and what becomes of the file.                            *)
(* SpecMainLive adds that the program keeps running.  SpecUpdated is the   *)
(* job of src/DaVinci_Updated.py (process_magnumstream_job), and           *)
(* SpecUpdatedLive adds that its code keeps running.                       *)
(***************************************************************************)
EXTENDS Integers, Sequences, FiniteSets, TLC

VARIABLES
    pc,             \* position of process_job
    clips,          \* job_data['clips']: the keys of the mapping, in file order
    api,            \* methods the application's objects of this run offer (hasattr)
    timeline,       \* items of video track 3 of the live timeline, in API order
    timeline_items, \* the item list fetched once before the loop (line 519)
    poolFile,       \* media-pool asset -> file behind it (0: template footage)
    subfolders,     \* sub-folders (bins) of the media pool's root folder
    fileState,      \* per key of clips, in order: what the import step met
    media_items,    \* dict slot_number -> imported media, in insertion order
    replaced_slots, \* list replaced_slots of _replace_clips_from_project
    slots_needing_delete_add, \* list of the same name (never filled)
    idx,            \* index of the running for loop
    slotOutcome,    \* per processed slot: how its loop iteration ended
    verified,       \* return value of _verify_template_integrity
    gate,           \* return value of _replace_clips_from_project
    saved,          \* return value of _save_project
    calls,          \* log of the calls made to the application
    result,         \* return value of process_job
    purge,          \* how _cleanup_old_clip_bins ended
    \* _render_project
    rpc,            \* position of _render_project
    papi,           \* methods the project object of this run offers (hasattr)
    job_id,         \* what AddRenderJob answered
    render_timeout, \* seconds the wait loop has accumulated
    status,         \* the local `status` of the last iteration of the wait loop
    decided,        \* the branch of _render_project that returned
    output_path,    \* the extension of the path returned ("none": no path)
    \* the application and the output folder during a render
    appStatus,      \* what the status queries answer at present
    rendering,      \* what IsRenderingInProgress answers at present
    files,          \* extension -> the file <render_filename><extension>
    \* main, process_single_job, JobWatcher
    mode,           \* the command line: "job-file" or "watch"
    mpc,            \* position of main and of what it calls
    attempt,        \* iterations made by the retry loop of _connect_to_resolve
    resolve,        \* self.resolve
    project_manager, \* self.project_manager
    exit_code,      \* exit code of the process (None while it runs)
    printed,        \* what main printed on stdout
    returned,       \* return value of process_single_job
    where,          \* job file -> where it is (queue: <name>.json in the folder)
    content,        \* job file -> what it holds
    job_files,      \* the list `job_files` of the running scan of watch
    job_file,       \* the job file at hand (0: none)
    events,         \* log of what the driver did
    handled,        \* job files the driver picked up and is through with
    \* fields of the DaVinciAutomation object that outlive a job
    current_project, \* self.current_project: the load that gave it (0: None)
    self_timeline   \* self.timeline: the load whose project it belongs to
                    \* (0: None), and whether the handle still answers

\* the variables of the render step
renderVars == <<rpc, papi, job_id, render_timeout, status, decided, output_path,
                appStatus, rendering, files>>

\* the variables of main, process_single_job and JobWatcher
driverVars == <<mode, mpc, attempt, resolve, project_manager, exit_code, printed,
                returned, where, content, job_files, job_file, events, handled>>

\* the fields set by _load_template_project
objectVars == <<current_project, self_timeline>>

\* the variables of the steps before it, but pc, calls and result
replaceVars == <<clips, api, timeline, timeline_items, poolFile, subfolders, fileState,
                 media_items, replaced_slots, slots_needing_delete_add, idx,
                 slotOutcome, verified, gate, saved, purge>>

vars == <<pc, clips, api, timeline, timeline_items, poolFile, subfolders, fileState,
          media_items, replaced_slots, slots_needing_delete_add, idx, slotOutcome,
          verified, gate, saved, calls, result, purge, renderVars, driverVars, objectVars>>

(***************************************************************************)
(* Bounds                                                                  *)
(***************************************************************************)
MaxClips == 2          \* keys in one job description
MaxGone == 2           \* placeholders missing from a template under check
RippleDelta == 2       \* frames by which a replacement may shift later items
MaxFiles == 2          \* job files a producer submits to one watcher

(***************************************************************************)
(* Configuration (src/Davinci.py)                                          *)
(***************************************************************************)
NumSlots == 14
TRACK_INDEX == 3
None == -1

\* a table in which slots 2 and 3 share a start frame
StartFrames_Shared ==
    <<86485, 86549, 86549, 86631, 86654, 86790, 86844,
      86905, 86927, 87035, 87106, 87142, 87216, 87353>>

StartFrames ==
    <<86485, 86549, 86578, 86631, 86654, 86790, 86844,
      86905, 86927, 87035, 87106, 87142, 87216, 87353>>

\* lengths of the template placeholders, from the comments of the table
TemplateLen == <<22, 29, 31, 23, 37, 16, 19, 22, 33, 14, 36, 34, 13, 77>>

CLIP_POSITIONS ==
    [s \in 1..NumSlots |-> [track |-> TRACK_INDEX, start_frame |-> StartFrames[s]]]

\* the table of src/DaVinci_Updated.py
Updated_NumSlots == 5
Updated_StartFrames == <<86570, 86633, 87135, 87328, 87565>>
Updated_Durations == <<39, 36, 37, 60, 48>>

Updated_CLIP_POSITIONS ==
    [s \in 1..Updated_NumSlots |->
        [track |-> 3, start_frame |-> Updated_StartFrames[s],
         duration_frames |-> Updated_Durations[s]]]

(***************************************************************************)
(* Helpers                                                                 *)
(***************************************************************************)
Range(s) == {s[i] : i \in DOMAIN s}

\* int(slot_num) on a string of decimal digits, most significant first
RECURSIVE IntOf(_)
IntOf(digits) ==
    IF digits = << >> THEN 0
    ELSE 10 * IntOf(SubSeq(digits, 1, Len(digits) - 1)) + digits[Len(digits)]

\* one logged call: the method, the slot being handled (0: none), the timeline
\* item it is made on (0: none), an argument, and for a call on a media-pool
\* asset the number of timeline items that use the asset when it is made
Call(op, slot, item, arg, users) ==
    [op |-> op, slot |-> slot, item |-> item, arg |-> arg, users |-> users]

Step(op) == Call(op, 0, 0, 0, 0)

Called(op) == \E i \in DOMAIN calls : calls[i].op = op

CallsFor(op, slot) == {i \in DOMAIN calls : calls[i].op = op /\ calls[i].slot = slot}

\* position of a slot among the keys of the dict media_items, 0 if absent
RECURSIVE DictIndex(_, _, _)
DictIndex(d, slot, i) ==
    IF i > Len(d) THEN 0
    ELSE IF d[i].slot = slot THEN i
    ELSE DictIndex(d, slot, i + 1)

\* media_items[slot] = value: a new key is appended, an existing key keeps its place
DictSet(d, slot, value) ==
    LET k == DictIndex(d, slot, 1) IN
    IF k = 0 THEN Append(d, value) ELSE [d EXCEPT ![k] = value]

(***************************************************************************)
(* The environment at the start of a job                                   *)
(***************************************************************************)
\* keys a job may use: "2", "02", "3", "15" (slot 15 has no SlotPosition;
\* the placeholder of slot 2 ends at the frame where that of slot 3 starts)
JobKeys == {<<2>>, <<0, 2>>, <<3>>, <<1, 5>>}

RECURSIVE KeySeqs(_)
KeySeqs(n) ==
    IF n = 0 THEN {<< >>}
    ELSE LET shorter == KeySeqs(n - 1) IN
         shorter \cup {Append(s, k) : s \in {t \in shorter : Len(t) = n - 1},
                                      k \in JobKeys}

\* a JSON object has distinct keys
Jobs == {s \in KeySeqs(MaxClips) : \A i, j \in DOMAIN s : i # j => s[i] # s[j]}

Item(id, start, end, mpi, takes, valid) ==
    [id |-> id, start |-> start, end |-> end, mpi |-> mpi, takes |-> takes,
     valid |-> valid]

TemplateItem(s) ==
    Item(s, StartFrames[s], StartFrames[s] + TemplateLen[s], s, 0, TRUE)

IntactTimeline == [s \in 1..NumSlots |-> TemplateItem(s)]

\* a template that was edited and saved again: the placeholders of slots 2
\* and 3 are cut from one media-pool asset, the item of slot 2 carries a
\* take, and one more item follows the last placeholder
DriftedTimeline ==
    Append([IntactTimeline EXCEPT ![3].mpi = 2, ![2].takes = 1],
           Item(NumSlots + 1, 87500, 87520, NumSlots + 1, 0, TRUE))

\* the placeholder of slot 3 is gone
MissingTimeline == SubSeq(IntactTimeline, 1, 2) \o SubSeq(IntactTimeline, 4, NumSlots)

\* the placeholder of slot 3 is a dead reference: GetStart answers None
StaleTimeline == [IntactTimeline EXCEPT ![3].valid = FALSE]

\* nothing on the track
EmptyTimeline == << >>

Timelines ==
    {IntactTimeline, DriftedTimeline, MissingTimeline, StaleTimeline, EmptyTimeline}

\* the templates the integrity check is tried on: some placeholders gone,
\* at most one a dead reference, possibly one unexpected item at the end
TimelineWith(gone, stale, extra) ==
    LET Kept(it) == it.id \notin gone
        kept == SelectSeq(IntactTimeline, Kept)
        marked == [i \in DOMAIN kept |->
                     IF kept[i].id \in stale THEN [kept[i] EXCEPT !.valid = FALSE]
                     ELSE kept[i]]
    IN  IF extra THEN Append(marked, Item(NumSlots + 1, 87500, 87520, NumSlots + 1, 0, TRUE)) ELSE marked

IntegrityTimelines ==
    {TimelineWith(gone, stale, extra) :
        gone \in {g \in SUBSET (1..NumSlots) : Cardinality(g) <= MaxGone},
        stale \in {t \in SUBSET (1..NumSlots) : Cardinality(t) <= 1},
        extra \in BOOLEAN}

TemplateAssets == 1..(NumSlots + 1)

\* the media-pool item made by importing the i-th clip of the job
ImportedAsset(i) == 100 + i

\* the methods the code probes with hasattr before calling them
ProbedMethods ==
    {"ReplaceClip", "AddTake", "SelectTakeByIndex", "FinalizeTake",
     "PoolReplaceClip", "SetClipProperty"}

\* builds of the scripting API: all methods; timeline items without
\* ReplaceClip; also without SelectTakeByIndex; without any take method
\* and without ReplaceClip on pool assets
ApiProfiles ==
    {ProbedMethods,
     ProbedMethods \ {"ReplaceClip"},
     ProbedMethods \ {"ReplaceClip", "SelectTakeByIndex"},
     ProbedMethods \ {"ReplaceClip", "AddTake", "PoolReplaceClip"}}

\* bins: <<prefix, rest of the name>>
OldBins == {<<"Clips_", "rec0_20250101_000000">>}
OtherBins == {<<"Master_", "audio">>}

(***************************************************************************)
(* Resolve API as seen by the code                                         *)
(***************************************************************************)
GetItemListInTrack(tl, track) == IF track = TRACK_INDEX THEN tl ELSE << >>

GetStart(item) == IF item.valid THEN item.start ELSE None
GetEnd(item) == IF item.valid THEN item.end ELSE None

(***************************************************************************)
(* _verify_template_integrity                                              *)
(***************************************************************************)
ActualFrames(tl) ==
    LET items == GetItemListInTrack(tl, TRACK_INDEX) IN
    {GetStart(items[i]) : i \in {j \in DOMAIN items : GetStart(items[j]) # None}}

ExpectedFrames == {CLIP_POSITIONS[s].start_frame : s \in DOMAIN CLIP_POSITIONS}

MissingFrames(tl) == ExpectedFrames \ ActualFrames(tl)

ExtraFrames(tl) == ActualFrames(tl) \ ExpectedFrames

\* a check that also fails on unexpected frames
VerifyTemplateIntegrity_Strict(tl) ==
    IF GetItemListInTrack(tl, TRACK_INDEX) = << >> THEN FALSE
    ELSE IF MissingFrames(tl) # {} \/ ExtraFrames(tl) # {} THEN FALSE
    ELSE TRUE

\* a check that only wants the track not to be empty
VerifyTemplateIntegrity_NonEmpty(tl) ==
    IF GetItemListInTrack(tl, TRACK_INDEX) = << >> THEN FALSE
    ELSE TRUE

\* lines 325-352
VerifyTemplateIntegrity(tl) ==
    IF GetItemListInTrack(tl, TRACK_INDEX) = << >> THEN FALSE
    ELSE IF MissingFrames(tl) # {} THEN FALSE
    ELSE TRUE

(***************************************************************************)
(* _render_project: configuration and the output folder                    *)
(***************************************************************************)
max_timeout == 300         \* line 933
MinSize == 1000000         \* line 989
StaleAge == 30             \* line 1003

\* the extensions, in the order of the loops of lines 898, 958 and 978
Exts == <<"mp4", "mov", "avi">>

ExtSet == Range(Exts)

\* the methods of the project object that the code probes with hasattr
ProjectMethods ==
    {"DeleteAllRenderJobs", "GetRenderJobStatus", "GetCurrentRenderJobStatus",
     "IsRenderingInProgress"}

StatusMethods == ProjectMethods \ {"DeleteAllRenderJobs"}

\* builds of the scripting API: every method; no probed method; the
\* render-active query alone; the status query by job id and the queue
\* clearing
ProjectProfiles ==
    {ProjectMethods,
     {},
     {"IsRenderingInProgress"},
     {"DeleteAllRenderJobs", "GetRenderJobStatus"}}

\* a file: its size in bytes, whether it is still being written (a second
\* look finds it larger), and its age in seconds
Absent == [exists |-> FALSE, size |-> 0, grows |-> FALSE, age |-> 0]

File(size, grows, age) == [exists |-> TRUE, size |-> size, grows |-> grows, age |-> age]

\* a file left at the target path by an earlier render
OldFile == File(MinSize, FALSE, StaleAge + 1)

\* what the application makes of the .mp4 while it renders: nothing yet; a
\* file below the minimum size; a file that is large enough and still
\* written; a finished file
OutputFiles ==
    {Absent,
     File(MinSize - 1, TRUE, StaleAge - 1),
     File(MinSize, TRUE, StaleAge - 1),
     File(MinSize, FALSE, StaleAge - 1)}

\* what a status query may answer: None, an exception, or a dict whose
\* JobStatus is one of these
StatusAnswers == {"None", "raise", "Rendering", "Complete", "Failed", "Cancelled"}

\* the files that may lie at the target path when the render step starts
LeftBehind == {{}, {"mp4"}, {"mov", "avi"}}

\* the render step has not started
RenderIdle ==
    /\ rpc = "idle"
    /\ papi = {}
    /\ job_id = "None"
    /\ render_timeout = 0
    /\ status = "None"
    /\ decided = "none"
    /\ output_path = "none"
    /\ appStatus = "None"
    /\ rendering = FALSE
    /\ files = [e \in ExtSet |-> Absent]

\* job files a producer submits to one watcher
FileIds == 1..MaxFiles

\* a timeline handle: the load that gave the project it belongs to, and
\* whether its methods still answer
Handle(load, alive) == [project |-> load, alive |-> alive]

\* self.timeline = None (line 146)
NoTimeline == Handle(0, TRUE)

\* no driver: process_job is called directly
DriverIdle ==
    /\ mode = "none"
    /\ mpc = "none"
    /\ attempt = 0
    /\ resolve = "handle"
    /\ project_manager = "pm"
    /\ exit_code = None
    /\ printed = "none"
    /\ returned = "none"
    /\ where = [f \in FileIds |-> "nowhere"]
    /\ content = [f \in FileIds |-> [readable |-> FALSE, named |-> FALSE, clips |-> << >>]]
    /\ job_files = << >>
    /\ job_file = 0
    /\ events = << >>
    /\ handled = {}

(***************************************************************************)
(* Initial state                                                           *)
(***************************************************************************)
Init ==
    /\ pc = "load"
    /\ clips \in Jobs
    /\ api \in ApiProfiles
    /\ timeline \in Timelines
    /\ timeline_items = << >>
    /\ poolFile = [a \in TemplateAssets |-> 0]
    /\ subfolders = OtherBins \cup OldBins
    /\ fileState = << >>
    /\ media_items = << >>
    /\ replaced_slots = << >>
    /\ slots_needing_delete_add = << >>
    /\ idx = 0
    /\ slotOutcome = << >>
    /\ verified = "none"
    /\ gate = "none"
    /\ saved = "none"
    /\ calls = << >>
    /\ result = "none"
    /\ purge = "none"
    /\ RenderIdle
    /\ DriverIdle
    /\ current_project = 0
    /\ self_timeline = NoTimeline

(***************************************************************************)
(* process_job: load the template, then the integrity check                *)
(***************************************************************************)
\* a process_job that logs the failed integrity check and goes on
AfterStep_IgnoreVerify(step, ok) ==
    IF ~ok /\ step # "verify" THEN "done"
    ELSE CASE step = "load" -> "verify"
           [] step = "verify" -> "cleanup"
           [] step = "replace" -> "save"
           [] step = "save" -> "render"
           [] step = "render" -> "done"

\* a process_job that renders although the save failed
AfterStep_IgnoreSave(step, ok) ==
    IF ~ok /\ step # "save" THEN "done"
    ELSE CASE step = "load" -> "verify"
           [] step = "verify" -> "cleanup"
           [] step = "replace" -> "save"
           [] step = "save" -> "render"
           [] step = "render" -> "done"

\* lines 221-249: the step process_job goes to after a step returned
AfterStep(step, ok) ==
    IF ~ok THEN "done"
    ELSE CASE step = "load" -> "verify"
           [] step = "verify" -> "cleanup"
           [] step = "replace" -> "save"
           [] step = "save" -> "render"
           [] step = "render" -> "done"

\* what process_job has returned once it is at `at`
Returned(at, step, ok) ==
    IF at # "done" THEN "none"
    ELSE IF step = "render" /\ ok THEN "path"
    ELSE "False"

Goto(step, ok) ==
    /\ pc' = AfterStep(step, ok)
    /\ result' = Returned(AfterStep(step, ok), step, ok)

Bool(b) == IF b THEN "True" ELSE "False"

\* the load of the job at hand: one LoadProject per job, so the project
\* object it returns is named by the number of the job
LoadId == Cardinality(handled) + 1

\* lines 275-298: the timeline named TIMELINE_NAME when the loop finds it;
\* else the first timeline when the object holds no timeline and the project
\* has one; else what the object held
TimelineAfterLookup(held, load, count, found) ==
    IF found THEN Handle(load, TRUE)
    ELSE IF held = NoTimeline /\ count > 0 THEN Handle(load, TRUE)
    ELSE held

\* _load_template_project: LoadProject answers a project (logged with
\* argument 1) or None; the project has `count` timelines and one of them
\* has the name TIMELINE_NAME or none has. A handle kept from a project that
\* was closed answers as before or not at all.
LoadTemplateProject ==
    /\ pc = "load"
    /\ \E lp \in BOOLEAN, count \in 0..1, found \in BOOLEAN, alive \in BOOLEAN :
         LET after == TimelineAfterLookup(self_timeline, LoadId, count, found)
             kept == IF after.project # LoadId /\ after # NoTimeline
                     THEN Handle(after.project, alive) ELSE after
             loaded == lp /\ after # NoTimeline
         IN /\ found => count > 0
            /\ calls' = Append(calls, Call("LoadProject", 0, 0, IF lp THEN 1 ELSE 0, 0))
            /\ current_project' = IF lp THEN LoadId ELSE 0
            /\ self_timeline' = IF lp THEN kept ELSE self_timeline
            /\ Goto("load", loaded)
    /\ UNCHANGED <<clips, api, timeline, timeline_items, poolFile, subfolders, fileState, media_items,
                   replaced_slots, slots_needing_delete_add, idx, slotOutcome,
                   verified, gate, saved,
                   purge, renderVars, driverVars>>

\* what self.timeline.GetItemListInTrack answers: the track, or nothing when
\* the handle no longer answers
TrackOf(handle, tl) == IF handle.alive THEN tl ELSE << >>

VerifyStep ==
    /\ pc = "verify"
    /\ calls' = Append(calls, Step("GetItemListInTrack"))
    /\ verified' = Bool(VerifyTemplateIntegrity(TrackOf(self_timeline, timeline)))
    /\ Goto("verify", VerifyTemplateIntegrity(TrackOf(self_timeline, timeline)))
    /\ UNCHANGED <<clips, api, timeline, timeline_items, poolFile, subfolders, fileState, media_items,
                   replaced_slots, slots_needing_delete_add, idx, slotOutcome,
                   gate, saved,
                   purge, renderVars, driverVars, objectVars>>

(***************************************************************************)
(* _cleanup_old_clip_bins and the bin of the job                           *)
(***************************************************************************)
\* the bins the purge loop selects
OldClipBins(folders) == {f \in folders : f[1] = "Clips_"}

\* a purge that takes the job with it when it fails
AfterCleanup_Abort(answer) == IF answer = "ok" THEN "bin" ELSE "done"

\* lines 458-460 and 467-469: the purge returns nothing and the step after
\* it is the creation of the bin, however the purge ended
AfterCleanup(answer) == "bin"

\* the calls of the purge on one old bin (lines 446-451): the bin holds the
\* clips of the run that made it
PurgeCalls == <<Step("MediaPoolDeleteClips"), Step("DeleteFolders")>>

RECURSIVE Times(_, _)
Times(cs, n) == IF n = 0 THEN << >> ELSE cs \o Times(cs, n - 1)

\* answer "ok": every selected bin is deleted; "refused": DeleteFolders is
\* called and leaves the bin; "raise": GetRootFolder raises, nothing is called
CleanupOldClipBins ==
    /\ pc = "cleanup"
    /\ \E answer \in {"ok", "refused", "raise"} :
         LET old == OldClipBins(subfolders) IN
         /\ subfolders' = IF answer = "ok" THEN subfolders \ old ELSE subfolders
         /\ calls' = IF answer = "raise" THEN calls
                     ELSE calls \o Times(PurgeCalls, Cardinality(old))
         /\ purge' = answer
         /\ pc' = AfterCleanup(answer)
         /\ result' = IF AfterCleanup(answer) = "done" THEN "False" ELSE result
    /\ UNCHANGED <<clips, api, timeline, timeline_items, poolFile, fileState, media_items,
                   replaced_slots, slots_needing_delete_add, idx, slotOutcome,
                   verified, gate, saved, renderVars, driverVars, objectVars>>

CurrentBin == <<"Clips_", "current">>

\* lines 469-472: AddSubFolder makes the bin of the job
CreateClipBin ==
    /\ pc = "bin"
    /\ subfolders' = subfolders \cup {CurrentBin}
    /\ calls' = Append(calls, Step("AddSubFolder"))
    /\ pc' = "import"
    /\ idx' = 1
    /\ UNCHANGED <<clips, api, timeline, timeline_items, poolFile, fileState, media_items,
                   replaced_slots, slots_needing_delete_add, slotOutcome, verified,
                   gate, saved, result,
                   purge, renderVars, driverVars, objectVars>>

(***************************************************************************)
(* _replace_clips_from_project: the import loop                            *)
(***************************************************************************)
\* what one iteration may meet: the file is absent; ImportMedia answers
\* nothing; ImportMedia answers the new media-pool item
FileStates == {"missing", "empty", "imported"}

ImportClip ==
    /\ pc = "import"
    /\ idx <= Len(clips)
    /\ \E st \in FileStates :
         LET slot_number == IntOf(clips[idx]) IN
         /\ fileState' = Append(fileState, st)
         /\ calls' = IF st = "missing" THEN calls
                     ELSE Append(calls, Call("ImportMedia", slot_number, 0, idx, 0))
         /\ media_items' =
              IF st = "imported"
              THEN DictSet(media_items, slot_number,
                           [slot |-> slot_number, clip |-> idx,
                            media |-> ImportedAsset(idx)])
              ELSE media_items
         /\ poolFile' =
              IF st = "imported"
              THEN [a \in DOMAIN poolFile \cup {ImportedAsset(idx)} |->
                       IF a = ImportedAsset(idx) THEN idx ELSE poolFile[a]]
              ELSE poolFile
    /\ idx' = idx + 1
    /\ UNCHANGED <<pc, clips, api, timeline, timeline_items, subfolders, replaced_slots,
                   slots_needing_delete_add, slotOutcome, verified, gate, saved,
                   result,
                   purge, renderVars, driverVars, objectVars>>

\* lines 515-537: the item list fetched once, the two empty lists
BeginReplacement ==
    /\ pc = "import"
    /\ idx > Len(clips)
    /\ calls' = Append(calls, Step("GetItemListInTrack"))
    /\ timeline_items' = GetItemListInTrack(timeline, TRACK_INDEX)
    /\ replaced_slots' = << >>
    /\ slots_needing_delete_add' = << >>
    /\ pc' = "replace"
    /\ idx' = 1
    /\ UNCHANGED <<clips, api, timeline, poolFile, subfolders, fileState, media_items,
                   slotOutcome, verified, gate, saved, result,
                   purge, renderVars, driverVars, objectVars>>

(***************************************************************************)
(* _replace_clips_from_project: Slot Resolution                            *)
(***************************************************************************)
\* a lookup in the list fetched once before the loop
RefetchItems_Reuse(st, snapshot, slot, track) ==
    [items |-> snapshot, log |-> st.log]

\* line 554: the item list is fetched again from the live timeline
RefetchItems(st, snapshot, slot, track) ==
    [items |-> GetItemListInTrack(st.tl, track),
     log |-> Append(st.log, Call("GetItemListInTrack", slot, 0, 0, 0))]

\* lines 557-572: the first item of the list, in list order, that has valid
\* boundaries and starts at the frame or contains it; 0 if there is none
RECURSIVE FindTarget(_, _, _)
FindTarget(items, start_frame, i) ==
    IF i > Len(items) THEN 0
    ELSE LET item_start == GetStart(items[i])
             item_end == GetEnd(items[i])
         IN  IF item_start = None \/ item_end = None
             THEN FindTarget(items, start_frame, i + 1)
             ELSE IF item_start = start_frame
                     \/ (item_start <= start_frame /\ start_frame < item_end)
             THEN i
             ELSE FindTarget(items, start_frame, i + 1)

\* the items of the list with valid boundaries that start at the frame
\* (first disjunct of line 569), by id
ExactItems(items, start_frame) ==
    {items[j].id : j \in {m \in DOMAIN items :
                             GetStart(items[m]) # None /\ GetEnd(items[m]) # None
                             /\ GetStart(items[m]) = start_frame}}

(***************************************************************************)
(* _replace_clips_from_project: Replacement Execution                      *)
(*                                                                         *)
(* The local state of one loop iteration is a record                       *)
(*   tl, pool : the application's timeline and media pool                  *)
(*   log      : the calls made so far                                      *)
(*   rs       : replaced_slots                                             *)
(*   replaced : the flag `replaced`                                        *)
(*   by       : the methods that reported success, in order                *)
(* and each method maps it to the state after the method, given what the   *)
(* application answers.                                                    *)
(***************************************************************************)
Users(tl, mpi) == Cardinality({j \in DOMAIN tl : tl[j].mpi = mpi})

\* the application may move what follows an item whose source was replaced
Ripple(tl, k) ==
    [j \in DOMAIN tl |->
        IF j = k THEN [tl[j] EXCEPT !.end = @ + RippleDelta]
        ELSE IF tl[j].start > tl[k].start
        THEN [tl[j] EXCEPT !.start = @ + RippleDelta, !.end = @ + RippleDelta]
        ELSE tl[j]]

\* hasattr(obj, name) and callable(getattr(obj, name, None))
HasAttr(name) == name \in api

\* the application may let the item grow over what follows it
Extend(tl, k) == [tl EXCEPT ![k].end = @ + RippleDelta]

\* answers of target_item.ReplaceClip: True with the boundaries kept, with a
\* shift of the following items, or with the item grown; False; an exception
M1Answers == {"true", "true_ripple", "true_extend", "false", "raise"}

\* line 583
Reaches1(st) == HasAttr("ReplaceClip")

\* Method 1, lines 582-596
Method1(st, answer, slot, k, media) ==
    IF ~Reaches1(st) THEN st
    ELSE LET logged == Append(st.log, Call("ReplaceClip", slot, st.tl[k].id, media, 0))
         IN  IF answer \in {"true", "true_ripple", "true_extend"}
             THEN [st EXCEPT
                     !.log = logged,
                     !.tl = IF answer = "true_ripple"
                            THEN Ripple([st.tl EXCEPT ![k].mpi = media], k)
                            ELSE IF answer = "true_extend"
                            THEN Extend([st.tl EXCEPT ![k].mpi = media], k)
                            ELSE [st.tl EXCEPT ![k].mpi = media],
                     !.rs = Append(st.rs, slot),
                     !.replaced = TRUE,
                     !.by = Append(st.by, 1)]
             ELSE [st EXCEPT !.log = logged]

\* answers of the take calls: AddTake answers False or raises; AddTake adds
\* the take and SelectTakeByIndex answers False or raises; both succeed and
\* the last FinalizeTake returns, or raises
M2Answers == {"add_fail", "select_fail", "ok", "ok_finalize_raise"}

\* a Method 2 that runs whether or not Method 1 replaced the clip
Reaches2_Unguarded(st) == HasAttr("AddTake")

\* line 599
Reaches2(st) == ~st.replaced /\ HasAttr("AddTake")

\* lines 613-614: the new take counts as selected when SelectTakeByIndex
\* exists and answers True; here whenever AddTake answered True
TakeSelected_AddSuffices(answer) == TRUE

\* lines 613-614
TakeSelected(answer) == HasAttr("SelectTakeByIndex") /\ answer # "select_fail"

\* Method 2, lines 598-630
Method2(st, answer, slot, k, media) ==
    IF ~Reaches2(st) THEN st
    ELSE
    LET id == st.tl[k].id
        current_takes == st.tl[k].takes
        logc == Append(st.log, Call("GetTakesCount", slot, id, current_takes, 0))
        \* existing takes are finalized first
        finalize_first == current_takes > 0 /\ HasAttr("FinalizeTake")
        log0 == IF finalize_first
                THEN Append(logc, Call("FinalizeTake", slot, id, 0, 0))
                ELSE logc
        takes0 == IF finalize_first THEN 0 ELSE current_takes
        log1 == Append(log0, Call("AddTake", slot, id, media, 0))
        take_count == takes0 + 1
        logn == Append(log1, Call("GetTakesCount", slot, id, take_count, 0))
        log2 == IF HasAttr("SelectTakeByIndex")
                THEN Append(logn, Call("SelectTakeByIndex", slot, id, take_count, 0))
                ELSE logn
        log3 == IF HasAttr("FinalizeTake")
                THEN Append(log2, Call("FinalizeTake", slot, id, 0, 0))
                ELSE log2
    IN  IF answer = "add_fail"
        THEN [st EXCEPT !.log = log1, !.tl[k].takes = takes0]
        ELSE IF ~TakeSelected(answer)
        THEN [st EXCEPT !.log = log2, !.tl[k].takes = take_count]
        ELSE [st EXCEPT
                !.log = log3,
                !.tl[k].takes = IF answer = "ok" /\ HasAttr("FinalizeTake")
                                THEN 0 ELSE take_count,
                !.tl[k].mpi = media,
                !.rs = Append(st.rs, slot),
                !.replaced = TRUE,
                !.by = Append(st.by, 2)]

\* answers of the calls on the pool asset: GetMediaPoolItem answers None or
\* raises; ReplaceClip on the asset answers True, or raises; it answers False
\* (or is missing) and SetClipProperty answers True, or does not
M3Answers == {"no_mpi", "rc_true", "rc_raise", "sp_true", "sp_fail"}

\* line 633
Reaches3(st) == ~st.replaced

\* Method 3, lines 632-667
Method3(st, answer, slot, k, clip) ==
    IF ~Reaches3(st) THEN st
    ELSE
    LET id == st.tl[k].id
        current_media == st.tl[k].mpi
        users == Users(st.tl, current_media)
        log0 == Append(st.log, Call("GetMediaPoolItem", slot, id, 0, 0))
        log1 == IF HasAttr("PoolReplaceClip")
                THEN Append(log0, Call("PoolReplaceClip", slot, id, current_media, users))
                ELSE log0
        log2 == IF HasAttr("SetClipProperty")
                THEN Append(log1, Call("SetClipProperty", slot, id, current_media, users))
                ELSE log1
        swapped(log) == [st EXCEPT !.log = log, !.pool[current_media] = clip,
                                   !.rs = Append(st.rs, slot), !.replaced = TRUE,
                                   !.by = Append(st.by, 3)]
    IN  IF answer = "no_mpi" THEN [st EXCEPT !.log = log0]
        ELSE IF HasAttr("PoolReplaceClip") /\ answer = "rc_true" THEN swapped(log1)
        ELSE IF HasAttr("PoolReplaceClip") /\ answer = "rc_raise"
        THEN [st EXCEPT !.log = log1]
        ELSE IF HasAttr("SetClipProperty") /\ answer = "sp_true" THEN swapped(log2)
        ELSE [st EXCEPT !.log = log2]

\* the answers worth telling apart: a method the code does not call is
\* offered a single answer, one with which it would succeed
Offer(reached, answers, success) == IF reached THEN answers ELSE {success}

\* a last resort that deletes the item and inserts the clip at its frame
Method4_DeleteAndReinsert(st, slot, k) ==
    IF st.replaced THEN st
    ELSE [st EXCEPT !.log = st.log \o <<Call("DeleteClips", slot, st.tl[k].id, 0, 0),
                                        Call("AppendToTimeline", slot, 0, 0, 0)>>]

\* "Method 4", lines 669-680: nothing but log lines
Method4(st, slot, k) == st

\* a loop that stops at the first slot that was not replaced
Continue_Break(i, n, how) == IF how = "matched" THEN i + 1 ELSE n + 1

\* lines 544, 576 and 680: `continue`, or the end of the loop body
Continue(i, n, how) == i + 1

\* the end of one iteration of the replacement loop; `item` is the timeline
\* item that was handed to the methods (0: none), `exact` the items of the
\* scanned list that started at the frame of the slot
EndIteration(st, slot, how, item, exact) ==
    /\ timeline' = st.tl
    /\ poolFile' = st.pool
    /\ calls' = st.log
    /\ replaced_slots' = st.rs
    /\ slotOutcome' = Append(slotOutcome, [slot |-> slot, how |-> how, by |-> st.by,
                                           item |-> item, exact |-> exact])
    /\ idx' = Continue(idx, Len(media_items), how)

\* one iteration of the loop of lines 539-680
ReplaceSlot ==
    /\ pc = "replace"
    /\ idx <= Len(media_items)
    /\ LET slot_number == media_items[idx].slot
           st0 == [tl |-> timeline, pool |-> poolFile, log |-> calls,
                   rs |-> replaced_slots, replaced |-> FALSE, by |-> << >>]
       IN  IF slot_number \notin DOMAIN CLIP_POSITIONS
           THEN EndIteration(st0, slot_number, "no-position", 0, {})
           ELSE
           LET position == CLIP_POSITIONS[slot_number]
               fetched == RefetchItems(st0, timeline_items, slot_number, position.track)
               current_timeline_items == fetched.items
               st1 == [st0 EXCEPT !.log = fetched.log]
               k == FindTarget(current_timeline_items, position.start_frame, 1)
               media == media_items[idx].media
               clip == media_items[idx].clip
           IN  IF k = 0
               THEN EndIteration(st1, slot_number, "position-missing", 0, {})
               ELSE
               \E a1 \in Offer(Reaches1(st1), M1Answers, "true") :
                 LET s1 == Method1(st1, a1, slot_number, k, media) IN
                 \E a2 \in Offer(Reaches2(s1), M2Answers, "ok") :
                   LET s2 == Method2(s1, a2, slot_number, k, media) IN
                   \E a3 \in Offer(Reaches3(s2), M3Answers, "rc_true") :
                     LET s3 == Method3(s2, a3, slot_number, k, clip)
                         s4 == Method4(s3, slot_number, k)
                     IN  EndIteration(s4, slot_number,
                                      IF s4.replaced THEN "matched"
                                      ELSE "replace-failed",
                                      current_timeline_items[k].id,
                                      ExactItems(current_timeline_items,
                                                 position.start_frame))
    /\ UNCHANGED <<pc, clips, api, timeline_items, subfolders, fileState, media_items,
                   slots_needing_delete_add, verified, gate, saved, result,
                   purge, renderVars, driverVars, objectVars>>

(***************************************************************************)
(* _replace_clips_from_project: Phase 2 (disabled) and the gate            *)
(***************************************************************************)
\* lines 682-738: the calls of the batch delete/add, made for the slots of
\* slots_needing_delete_add when the phase runs
Phase2Calls(needing) ==
    IF FALSE /\ needing # << >>
    THEN <<Step("DeleteClips")>>
         \o [i \in DOMAIN needing |-> Call("AppendToTimeline", needing[i], 0, 0, 0)]
    ELSE << >>

\* a gate that wants every slot of the table replaced
GatePasses_WholeTable(rs, mi) == ~(Len(rs) < NumSlots)

\* a gate that is content with one replaced slot
GatePasses_NonEmpty(rs, mi) == Len(rs) > 0 \/ Len(mi) = 0

\* lines 740-752
GatePasses(rs, mi) == ~(Len(rs) < Len(mi))

CompletionGate ==
    /\ pc = "replace"
    /\ idx > Len(media_items)
    /\ calls' = calls \o Phase2Calls(slots_needing_delete_add)
    /\ gate' = Bool(GatePasses(replaced_slots, media_items))
    /\ Goto("replace", GatePasses(replaced_slots, media_items))
    /\ UNCHANGED <<clips, api, timeline, timeline_items, poolFile, subfolders, fileState, media_items,
                   replaced_slots, slots_needing_delete_add, idx, slotOutcome,
                   verified, saved,
                   purge, renderVars, driverVars, objectVars>>

(***************************************************************************)
(* _save_project and _render_project                                       *)
(***************************************************************************)
\* SaveProject returns (its answer is not looked at) or raises
SaveProject ==
    /\ pc = "save"
    /\ calls' = Append(calls, Step("SaveProject"))
    /\ \E raises \in BOOLEAN :
         /\ saved' = Bool(~raises)
         /\ Goto("save", ~raises)
    /\ UNCHANGED <<clips, api, timeline, timeline_items, poolFile, subfolders, fileState, media_items,
                   replaced_slots, slots_needing_delete_add, idx, slotOutcome,
                   verified, gate,
                   purge, renderVars, driverVars, objectVars>>

\* _render_project as one step of process_job (its steps and its wait loop
\* are taken one by one further down).  What the step may meet:
\* SetRenderSettings raises; AddRenderJob answers None or raises; the wait
\* ends in failure or timeout; the wait ends with the output path
RenderAnswers == {"settings_raise", "add_fail", "wait_fail", "path"}

RenderCalls(answer) ==
    <<Step("SetRenderSettings")>>
    \o (IF answer = "settings_raise" THEN << >>
        ELSE <<Step("LoadRenderPreset"), Step("DeleteAllRenderJobs"),
               Step("AddRenderJob")>>)
    \o (IF answer \in {"wait_fail", "path"} THEN <<Step("StartRendering")>>
        ELSE << >>)

RenderProject ==
    /\ pc = "render"
    /\ \E answer \in RenderAnswers :
         /\ calls' = calls \o RenderCalls(answer)
         /\ Goto("render", answer = "path")
    /\ UNCHANGED <<clips, api, timeline, timeline_items, poolFile, subfolders, fileState, media_items,
                   replaced_slots, slots_needing_delete_add, idx, slotOutcome,
                   verified, gate, saved,
                   purge, renderVars, driverVars, objectVars>>

Next == LoadTemplateProject \/ VerifyStep \/ CleanupOldClipBins \/ CreateClipBin
        \/ ImportClip \/ BeginReplacement \/ ReplaceSlot \/ CompletionGate
        \/ SaveProject \/ RenderProject

Spec == Init /\ [][Next]_vars

(***************************************************************************)
(* The integrity check alone, on every template of IntegrityTimelines       *)
(***************************************************************************)
InitIntegrity ==
    /\ pc = "verify"
    /\ clips = << >>
    /\ api = ProbedMethods
    /\ timeline \in IntegrityTimelines
    /\ timeline_items = << >>
    /\ poolFile = [a \in TemplateAssets |-> 0]
    /\ subfolders = OtherBins \cup OldBins
    /\ fileState = << >>
    /\ media_items = << >>
    /\ replaced_slots = << >>
    /\ slots_needing_delete_add = << >>
    /\ idx = 0
    /\ slotOutcome = << >>
    /\ verified = "none"
    /\ gate = "none"
    /\ saved = "none"
    /\ calls = << >>
    /\ result = "none"
    /\ purge = "none"
    /\ RenderIdle
    /\ DriverIdle
    /\ current_project = 1
    /\ self_timeline = Handle(1, TRUE)

NextIntegrity == VerifyStep

SpecIntegrity == InitIntegrity /\ [][NextIntegrity]_vars

(***************************************************************************)
(* _render_project, step by step                                           *)
(*                                                                         *)
(* The application is the environment of the wait loop: what its status    *)
(* queries and IsRenderingInProgress answer and what lies in the output    *)
(* folder are state (appStatus, rendering, files); an iteration of the     *)
(* loop reads that state.  The state is what the application shows once    *)
(* the render was started, and it changes once more when a render that is  *)
(* active ends (AppFinishes).  Both status queries answer from appStatus.  *)
(***************************************************************************)
HasP(name) == name \in papi

\* _render_project returns (a path, or False from the handler of line
\* 1069), and process_job returns what it returned (lines 240-249)
Return(how, ext) ==
    /\ rpc' = "returned"
    /\ decided' = how
    /\ output_path' = ext
    /\ Goto("render", ext # "none")

\* lines 872-887: SetRenderSettings answers True or False (both go on), or
\* raises; LoadRenderPreset is tried
ApplyRenderSettings ==
    /\ pc = "render"
    /\ rpc = "settings"
    /\ \E answer \in {"true", "false", "raise"} :
         IF answer = "raise"
         THEN /\ calls' = Append(calls, Step("SetRenderSettings"))
              /\ Return("exception", "none")
         ELSE /\ calls' = calls \o <<Step("SetRenderSettings"),
                                    Step("LoadRenderPreset")>>
              /\ rpc' = "queue"
              /\ UNCHANGED <<pc, result, decided, output_path>>
    /\ UNCHANGED <<papi, job_id, render_timeout, status, appStatus, rendering, files>>
    /\ UNCHANGED <<replaceVars, driverVars, objectVars>>

\* lines 889-895: the queue is cleared when the method exists; the call
\* returns or raises (arg 1), and the step after it is the same
ClearRenderQueue ==
    /\ pc = "render"
    /\ rpc = "queue"
    /\ \E raises \in BOOLEAN :
         calls' = IF HasP("DeleteAllRenderJobs")
                  THEN Append(calls, Call("DeleteAllRenderJobs", 0, 0,
                                          IF raises THEN 1 ELSE 0, 0))
                  ELSE calls
    /\ rpc' = "files"
    /\ UNCHANGED <<pc, result, papi, job_id, render_timeout, status, decided,
                   output_path, appStatus, rendering, files>>
    /\ UNCHANGED <<replaceVars, driverVars, objectVars>>

Existing(fs) == {e \in ExtSet : fs[e].exists}

\* a clean-up that looks at the .mp4 file alone
OldFiles_Mp4Only(fs) == Existing(fs) \cap {"mp4"}

\* lines 898-900: the files the clean-up tries to delete
OldFiles(fs) == Existing(fs)

\* the unlink calls, in the order of the extensions; arg 1: unlink raised
UnlinkCalls(fs, failing) ==
    LET Old(i) == Exts[i] \in OldFiles(fs)
        which == SelectSeq(<<1, 2, 3>>, Old)
    IN  [n \in DOMAIN which |->
            Call("unlink", 0, which[n], IF Exts[which[n]] \in failing THEN 1 ELSE 0, 0)]

\* lines 897-905: each existing file is unlinked; a failed unlink is logged
\* and leaves the file
DeleteOldFiles ==
    /\ pc = "render"
    /\ rpc = "files"
    /\ \E failing \in SUBSET OldFiles(files) :
         /\ calls' = calls \o UnlinkCalls(files, failing)
         /\ files' = [e \in ExtSet |->
                        IF e \in OldFiles(files) \ failing THEN Absent ELSE files[e]]
    /\ rpc' = "enqueue"
    /\ UNCHANGED <<pc, result, papi, job_id, render_timeout, status, decided,
                   output_path, appStatus, rendering>>
    /\ UNCHANGED <<replaceVars, driverVars, objectVars>>

\* the application writes the .mp4 (Absent: it has written nothing)
Written(fs, f) == IF f = Absent THEN fs ELSE [fs EXCEPT !["mp4"] = f]

\* a start that goes on to StartRendering whatever AddRenderJob answered
JobAdded_Always(add) == TRUE

\* lines 911-915: AddRenderJob returned, with a truthy answer
JobAdded(add) == add \notin {"None", "raise"}

\* lines 907-926: AddRenderJob answers None, raises, or answers a job id or
\* True; StartRendering answers True or False (both go on), or raises
StartRender ==
    /\ pc = "render"
    /\ rpc = "enqueue"
    /\ \E add \in {"None", "raise", "id", "True"}, start \in {"true", "false", "raise"} :
         IF ~JobAdded(add)
         THEN /\ calls' = Append(calls, Step("AddRenderJob"))
              /\ Return("exception", "none")
              /\ UNCHANGED <<job_id, appStatus, rendering, files>>
         ELSE IF start = "raise"
         THEN /\ calls' = calls \o <<Step("AddRenderJob"), Step("StartRendering")>>
              /\ job_id' = add
              /\ Return("exception", "none")
              /\ UNCHANGED <<appStatus, rendering, files>>
         ELSE /\ calls' = calls \o <<Step("AddRenderJob"), Step("StartRendering")>>
              /\ job_id' = add
              /\ rpc' = "wait"
              /\ appStatus' \in StatusAnswers
              /\ rendering' \in BOOLEAN
              /\ \E f \in OutputFiles : files' = Written(files, f)
              /\ UNCHANGED <<pc, result, decided, output_path>>
    /\ UNCHANGED <<papi, render_timeout, status>>
    /\ UNCHANGED <<replaceVars, driverVars, objectVars>>

\* the application ends an active render: the render-active query answers
\* False from now on, a status of Rendering becomes a final one, and the
\* .mp4 is what the render left
AppFinishes ==
    /\ pc = "render"
    /\ rpc = "wait"
    /\ rendering
    /\ rendering' = FALSE
    /\ appStatus' \in IF appStatus = "Rendering"
                      THEN {"Complete", "Failed", "Cancelled"}
                      ELSE {appStatus}
    /\ \E f \in OutputFiles : files' = Written(files, f)
    /\ UNCHANGED <<pc, result, calls, rpc, papi, job_id, render_timeout, status,
                   decided, output_path>>
    /\ UNCHANGED <<replaceVars, driverVars, objectVars>>

\* the first extension, in the order of the loops, that is in S
FirstExt(S) ==
    IF Exts[1] \in S THEN Exts[1]
    ELSE IF Exts[2] \in S THEN Exts[2]
    ELSE IF Exts[3] \in S THEN Exts[3]
    ELSE "none"

\* lines 952-962: the render is not active; the .mp4 if it exists, or else
\* the first file that exists
ActivePick(fs) == FirstExt(Existing(fs))

\* lines 1026-1029: a status query raised; the .mp4 if it exists
FallbackPick(fs) == IF fs["mp4"].exists THEN "mp4" ELSE "none"

\* a heuristic that takes any file that is large enough
FileVerdict_SizeOnly(file_size, new_file_size, file_age) ==
    IF file_size < MinSize THEN "small" ELSE "complete"

\* lines 983-1016: what the heuristic makes of one existing file
FileVerdict(file_size, new_file_size, file_age) ==
    IF file_size < MinSize THEN "small"
    ELSE IF new_file_size > file_size THEN "growing"
    ELSE IF file_age < StaleAge THEN "complete"
    ELSE "too-old"

\* lines 983-995: the two looks at the size of a file, 2 seconds apart
Look(f) == FileVerdict(f.size, IF f.grows THEN f.size + 1 ELSE f.size, f.age)

\* lines 978-1016: the first file the heuristic finds complete
HeuristicPick(fs) == FirstExt({e \in Existing(fs) : Look(fs[e]) = "complete"})

\* the loop goes to its next iteration after sleeping `seconds`
Wait(seconds, st) ==
    /\ render_timeout' = render_timeout + seconds
    /\ status' = st
    /\ UNCHANGED <<pc, result, calls, rpc, decided, output_path>>

\* a path is returned from inside the loop
ReturnPath(how, ext, st, cleared) ==
    /\ status' = st
    /\ calls' = IF cleared /\ HasP("DeleteAllRenderJobs")
                THEN Append(calls, Step("DeleteAllRenderJobs"))
                ELSE calls
    /\ Return(how, ext)
    /\ UNCHANGED render_timeout

\* one iteration of the loop of lines 935-1065
PollRender ==
    /\ pc = "render"
    /\ rpc = "wait"
    /\ render_timeout < max_timeout
    /\ LET by_id == job_id = "id" /\ HasP("GetRenderJobStatus")
           s1 == IF by_id THEN appStatus ELSE "None"
           current == s1 = "None" /\ HasP("GetCurrentRenderJobStatus")
           s2 == IF current THEN appStatus ELSE s1
           raised == (by_id \/ current) /\ appStatus = "raise"
           active == s2 = "None" /\ HasP("IsRenderingInProgress")
       IN  IF raised
           THEN \* lines 1023-1033
                IF FallbackPick(files) # "none"
                THEN ReturnPath("error-fallback", FallbackPick(files), "None", FALSE)
                ELSE Wait(2, "None")
           ELSE IF active
           THEN \* lines 949-970
                IF ~rendering
                THEN IF ActivePick(files) # "none"
                     THEN ReturnPath("active-query", ActivePick(files), s2, FALSE)
                     ELSE Wait(0, s2)
                ELSE Wait(5, s2)
           ELSE \* lines 971-1021
                IF render_timeout % 10 = 0 /\ HeuristicPick(files) # "none"
                THEN ReturnPath("heuristic", HeuristicPick(files), s2, TRUE)
                ELSE Wait(5, s2)
    /\ UNCHANGED <<papi, job_id, appStatus, rendering, files>>
    /\ UNCHANGED <<replaceVars, driverVars, objectVars>>

\* lines 935 and 1067: the loop ends and the timeout is raised
RenderTimeout ==
    /\ pc = "render"
    /\ rpc = "wait"
    /\ ~(render_timeout < max_timeout)
    /\ calls' = calls
    /\ Return("timeout", "none")
    /\ UNCHANGED <<papi, job_id, render_timeout, status, appStatus, rendering, files>>
    /\ UNCHANGED <<replaceVars, driverVars, objectVars>>

InitRender ==
    /\ pc = "render"
    /\ clips = << >>
    /\ api = ProbedMethods
    /\ timeline = IntactTimeline
    /\ timeline_items = IntactTimeline
    /\ poolFile = [a \in TemplateAssets |-> 0]
    /\ subfolders = OtherBins \cup {CurrentBin}
    /\ fileState = << >>
    /\ media_items = << >>
    /\ replaced_slots = << >>
    /\ slots_needing_delete_add = << >>
    /\ idx = 1
    /\ slotOutcome = << >>
    /\ verified = "True"
    /\ gate = "True"
    /\ saved = "True"
    /\ calls = << >>
    /\ result = "none"
    /\ purge = "ok"
    /\ rpc = "settings"
    /\ papi \in ProjectProfiles
    /\ job_id = "None"
    /\ render_timeout = 0
    /\ status = "None"
    /\ decided = "none"
    /\ output_path = "none"
    /\ appStatus = "None"
    /\ rendering = FALSE
    /\ \E left \in LeftBehind :
          files = [e \in ExtSet |-> IF e \in left THEN OldFile ELSE Absent]
    /\ DriverIdle
    /\ current_project = 1
    /\ self_timeline = Handle(1, TRUE)

RenderCode ==
    ApplyRenderSettings \/ ClearRenderQueue \/ DeleteOldFiles \/ StartRender
    \/ PollRender \/ RenderTimeout

NextRender == RenderCode \/ AppFinishes

SpecRender == InitRender /\ [][NextRender]_vars

\* the code runs on: a step of _render_project that is possible is taken
SpecRenderLive == SpecRender /\ WF_vars(RenderCode)

(***************************************************************************)
(* main, process_single_job and JobWatcher.watch                           *)
(*                                                                         *)
(* SpecMain is the program from its command line on: the handshake of      *)
(* DaVinciAutomation(), then process_job on the job of the file given      *)
(* (--job-file) or on the job files that a producer drops into the watch   *)
(* folder (--watch), step by step as in Spec, then what is done with the   *)
(* file.  A job file holds a job description or cannot be parsed.  The     *)
(* application keeps its state from one job of a watcher to the next.  Of  *)
(* the handshake the log `events` keeps how it ended.                      *)
(* The file operations of the driver itself (mkdir, move, rename), guarded *)
(* only by catch-all handlers, return normally.                            *)
(***************************************************************************)
\* line 175: range(30)
RetryLimit == 30

Ev(ev, ans, file) == [ev |-> ev, ans |-> ans, file |-> file]

\* sys.exit(code)
Exit(code) ==
    /\ mpc' = "exited"
    /\ exit_code' = code

\* what follows DaVinciAutomation(): line 1089 or lines 1231-1232
AfterConnect == IF mode = "job-file" THEN "process" ELSE "scan"

\* a handshake that logs the failure and lets the caller go on
OnConnectFailure_GoOn == AfterConnect

\* lines 199-202: the handler of _connect_to_resolve ends the process
OnConnectFailure == "exited"

ConnectFailure(why) ==
    /\ events' = Append(events, Ev("connect-failed", why, 0))
    /\ mpc' = OnConnectFailure
    /\ exit_code' = IF OnConnectFailure = "exited" THEN 1 ELSE exit_code

\* dvr.scriptapp answers the handle or None, or raises
ScriptAppAnswers == {"handle", "None", "raise"}

AfterScriptApp(ans) ==
    /\ resolve' = IF ans = "handle" THEN "handle" ELSE "None"
    /\ IF ans = "handle" THEN mpc' = "manager" /\ UNCHANGED <<exit_code, events>>
       ELSE IF ans = "None" THEN mpc' = "retry" /\ UNCHANGED <<exit_code, events>>
       ELSE ConnectFailure("scriptapp raised")

\* lines 154-172: the first acquisition; with no handle the application is
\* launched (when one of its two paths exists) and the retry loop begins
AcquireHandle ==
    /\ mpc = "connect"
    /\ \E ans \in ScriptAppAnswers : AfterScriptApp(ans)
    /\ UNCHANGED <<mode, attempt, project_manager, printed, returned, where,
                   content, job_files, job_file, handled>>
    /\ UNCHANGED <<pc, calls, result, replaceVars, renderVars, objectVars>>

\* lines 175-180: one iteration of the retry loop: sleep(1), then scriptapp
RetryAcquire ==
    /\ mpc = "retry"
    /\ attempt < RetryLimit
    /\ attempt' = attempt + 1
    /\ \E ans \in ScriptAppAnswers : AfterScriptApp(ans)
    /\ UNCHANGED <<mode, project_manager, printed, returned, where,
                   content, job_files, job_file, handled>>
    /\ UNCHANGED <<pc, calls, result, replaceVars, renderVars, objectVars>>

\* lines 182-183: the loop is over and there is no handle
AcquisitionExhausted ==
    /\ mpc = "retry"
    /\ ~(attempt < RetryLimit)
    /\ ConnectFailure("no handle")
    /\ UNCHANGED <<mode, attempt, resolve, project_manager, printed, returned, where,
                   content, job_files, job_file, handled>>
    /\ UNCHANGED <<pc, calls, result, replaceVars, renderVars, objectVars>>

\* how the osascript call ends: it returns (whatever its exit status), it
\* fails, it runs into the timeout of 5 s, the tool does not exist
MinimizeOutcomes == {"ok", "error", "timeout", "missing"}

\* a handshake that lets a failed minimize reach the outer handler
MinimizeFatal_OnFailure(outcome) == outcome # "ok"

\* lines 190-196: the bare except swallows whatever the minimize raises
MinimizeFatal(outcome) == FALSE

\* lines 185-198: the project manager, then the best-effort minimize
FinishHandshake ==
    /\ mpc = "manager"
    /\ \E pm \in {"pm", "None", "raise"}, minimize \in MinimizeOutcomes :
          IF pm # "pm"
          THEN /\ project_manager' = "None"
               /\ ConnectFailure("no project manager")
               /\ UNCHANGED attempt
          ELSE /\ project_manager' = "pm"
               /\ IF MinimizeFatal(minimize)
                  THEN ConnectFailure("minimize") /\ UNCHANGED attempt
                  ELSE /\ events' = Append(events, Ev("connected", minimize, 0))
                       /\ mpc' = AfterConnect
                       /\ attempt' = 0
                       /\ UNCHANGED exit_code
    /\ UNCHANGED <<mode, resolve, printed, returned, where,
                   content, job_files, job_file, handled>>
    /\ UNCHANGED <<pc, calls, result, replaceVars, renderVars, objectVars>>

\* lines 1213-1220 and 1228-1230: main up to the call of process_single_job
\* or of DaVinciAutomation()
Main ==
    /\ mpc = "main"
    /\ IF mode = "job-file"
       THEN IF where[1] # "queue"
            THEN Exit(1) /\ UNCHANGED job_file
            ELSE mpc' = "read" /\ job_file' = 1 /\ UNCHANGED exit_code
       ELSE mpc' = "connect" /\ UNCHANGED <<job_file, exit_code>>
    /\ UNCHANGED <<mode, attempt, resolve, project_manager, printed, returned, where,
                   content, job_files, events, handled>>
    /\ UNCHANGED <<pc, calls, result, replaceVars, renderVars, objectVars>>

\* lines 1080-1086 and 1105-1107: process_single_job reads the job file
ReadJobFile ==
    /\ mpc = "read"
    /\ IF content[job_file].readable
       THEN mpc' = "connect" /\ UNCHANGED <<returned, handled>>
       ELSE /\ mpc' = "report"
            /\ returned' = "False"
            /\ handled' = handled \cup {job_file}
    /\ UNCHANGED <<mode, attempt, resolve, project_manager, exit_code, printed, where,
                   content, job_files, job_file, events>>
    /\ UNCHANGED <<pc, calls, result, replaceVars, renderVars, objectVars>>

\* the variables of a process_job that is not running
NoJob ==
    /\ timeline_items = << >>
    /\ fileState = << >>
    /\ media_items = << >>
    /\ replaced_slots = << >>
    /\ slots_needing_delete_add = << >>
    /\ idx = 0
    /\ slotOutcome = << >>
    /\ verified = "none"
    /\ gate = "none"
    /\ saved = "none"
    /\ calls = << >>
    /\ result = "none"
    /\ purge = "none"

\* lines 1089 and 1136: process_job is called on the job of the file at hand
StartJob ==
    /\ mpc = "process"
    /\ mpc' = "job"
    /\ events' = Append(events, Ev("process_job", "", job_file))
    /\ pc' = "load"
    /\ clips' = content[job_file].clips
    /\ UNCHANGED <<timeline_items, fileState, media_items, replaced_slots,
                   slots_needing_delete_add, idx, slotOutcome, verified, gate, saved,
                   calls, result, purge>>
    /\ UNCHANGED <<api, timeline, poolFile, subfolders, renderVars, objectVars>>
    /\ UNCHANGED <<mode, attempt, resolve, project_manager, exit_code, printed, returned,
                   where, content, job_files, job_file, handled>>

\* a driver that leaves the file of a failed job where it is
Disposition_LeaveFailed(res) == IF res = "path" THEN "completed" ELSE "queue"

\* lines 1091-1103 and 1136-1146: moved to the completed folder, or renamed
Disposition(res) == IF res = "path" THEN "completed" ELSE "error"

\* process_job has returned (its locals are gone) and the file is moved or
\* renamed
Disposed ==
    /\ where' = [where EXCEPT ![job_file] = Disposition(result)]
    /\ events' = events \o <<Ev("returned", result, job_file),
                             Ev(Disposition(result), "", job_file)>>
    /\ handled' = handled \cup {job_file}
    /\ pc' = "idle"
    /\ clips' = << >>
    /\ timeline_items' = << >>
    /\ fileState' = << >>
    /\ media_items' = << >>
    /\ replaced_slots' = << >>
    /\ slots_needing_delete_add' = << >>
    /\ idx' = 0
    /\ slotOutcome' = << >>
    /\ verified' = "none"
    /\ gate' = "none"
    /\ saved' = "none"
    /\ calls' = << >>
    /\ result' = "none"
    /\ purge' = "none"
    /\ UNCHANGED <<api, timeline, poolFile, subfolders, renderVars, objectVars>>

\* lines 1089-1103: the end of process_single_job
DisposeSingle ==
    /\ mode = "job-file"
    /\ mpc = "job"
    /\ pc = "done"
    /\ Disposed
    /\ returned' = result
    /\ mpc' = "report"
    /\ UNCHANGED <<mode, attempt, resolve, project_manager, exit_code, printed,
                   content, job_files, job_file>>

\* a main that exits 0 whatever process_single_job returned
ExitCodeFor_Zero(ret) == 0

\* lines 1221-1226
ExitCodeFor(ret) == IF ret = "path" THEN 0 ELSE 1

\* lines 1220-1226: the end of main in process-one mode
MainReport ==
    /\ mpc = "report"
    /\ printed' = IF returned = "path" THEN "SUCCESS: path" ELSE "FAILED"
    /\ Exit(ExitCodeFor(returned))
    /\ UNCHANGED <<mode, attempt, resolve, project_manager, returned, where,
                   content, job_files, job_file, events, handled>>
    /\ UNCHANGED <<pc, calls, result, replaceVars, renderVars, objectVars>>

\* the lists that hold each element of S once
Orders(S) ==
    {s \in [1..Cardinality(S) -> S] : \A i, j \in 1..Cardinality(S) : i # j => s[i] # s[j]}

\* line 1126: the *.json files of the folder, in the order glob gives them
Scan ==
    /\ mpc = "scan"
    /\ job_files' \in Orders({f \in FileIds : where[f] = "queue"})
    /\ mpc' = "loop"
    /\ UNCHANGED <<mode, attempt, resolve, project_manager, exit_code, printed, returned,
                   where, content, job_file, events, handled>>
    /\ UNCHANGED <<pc, calls, result, replaceVars, renderVars, objectVars>>

\* lines 1128-1133, 1149 and 1154-1156: the for loop takes the next file and
\* reads it; an unreadable file raises into the handler of the while loop,
\* which sleeps and scans again; at the end of the list the loop sleeps
NextFile ==
    /\ mpc = "loop"
    /\ IF job_files = << >>
       THEN /\ mpc' = "scan"
            /\ UNCHANGED <<job_files, job_file, handled>>
       ELSE IF content[Head(job_files)].readable
       THEN /\ mpc' = "process"
            /\ job_file' = Head(job_files)
            /\ job_files' = Tail(job_files)
            /\ UNCHANGED handled
       ELSE /\ mpc' = "scan"
            /\ job_file' = Head(job_files)
            /\ job_files' = << >>
            /\ handled' = handled \cup {Head(job_files)}
    /\ UNCHANGED <<mode, attempt, resolve, project_manager, exit_code, printed, returned,
                   where, content, events>>
    /\ UNCHANGED <<pc, calls, result, replaceVars, renderVars, objectVars>>

\* lines 1136-1146 and 1154-1156: the file is moved or renamed; after the
\* move job_data['project_name'] raises when the job has no such key, and
\* the handler of the while loop sleeps and scans again
DisposeWatch ==
    /\ mode = "watch"
    /\ mpc = "job"
    /\ pc = "done"
    /\ Disposed
    /\ IF result = "path" /\ ~content[job_file].named
       THEN mpc' = "scan" /\ job_files' = << >>
       ELSE mpc' = "loop" /\ UNCHANGED job_files
    /\ UNCHANGED <<mode, attempt, resolve, project_manager, exit_code, printed, returned,
                   content, job_file>>

\* the producer drops a job file into the watch folder
Submit ==
    /\ mode = "watch"
    /\ mpc # "exited"
    /\ \E f \in FileIds :
          /\ where[f] = "nowhere"
          /\ where' = [where EXCEPT ![f] = "queue"]
    /\ UNCHANGED <<mode, mpc, attempt, resolve, project_manager, exit_code, printed,
                   returned, content, job_files, job_file, events, handled>>
    /\ UNCHANGED <<pc, calls, result, replaceVars, renderVars, objectVars>>

Unreadable == [readable |-> FALSE, named |-> FALSE, clips |-> << >>]

JobFile(keys, named) == [readable |-> TRUE, named |-> named, clips |-> keys]

\* what the file given to --job-file may hold
SingleContents == {JobFile(<< <<2>> >>, TRUE), JobFile(<< <<2>>, <<3>> >>, TRUE), Unreadable}

\* what a file dropped into the watch folder may hold: a job with the key
\* project_name, a job with the key projectName instead, no JSON
WatchContents == {JobFile(<< <<2>> >>, TRUE), JobFile(<< <<3>> >>, FALSE), Unreadable}

InitMain ==
    /\ pc = "idle"
    /\ clips = << >>
    /\ NoJob
    /\ poolFile = [a \in TemplateAssets |-> 0]
    /\ subfolders = OtherBins \cup OldBins
    /\ RenderIdle
    /\ mode \in {"job-file", "watch"}
    /\ mpc = "main"
    /\ attempt = 0
    /\ resolve = "None"
    /\ project_manager = "None"
    /\ exit_code = None
    /\ printed = "none"
    /\ returned = "none"
    /\ job_files = << >>
    /\ job_file = 0
    /\ events = << >>
    /\ handled = {}
    /\ current_project = 0
    /\ self_timeline = NoTimeline
    /\ IF mode = "job-file"
       THEN /\ api \in ApiProfiles
            /\ timeline \in Timelines
            /\ \E w \in {"nowhere", "queue"}, c \in SingleContents :
                  /\ where = [f \in FileIds |-> IF f = 1 THEN w ELSE "nowhere"]
                  /\ content = [f \in FileIds |-> IF f = 1 THEN c ELSE Unreadable]
       ELSE /\ api = ProbedMethods \ {"ReplaceClip", "AddTake", "PoolReplaceClip"}
            /\ timeline = IntactTimeline
            /\ where = [f \in FileIds |-> "nowhere"]
            /\ content \in [FileIds -> WatchContents]

NextMain ==
    Main \/ ReadJobFile \/ AcquireHandle \/ RetryAcquire \/ AcquisitionExhausted
    \/ FinishHandshake \/ StartJob \/ Next \/ DisposeSingle \/ MainReport
    \/ Scan \/ NextFile \/ DisposeWatch \/ Submit

SpecMain == InitMain /\ [][NextMain]_vars

\* the steps of the program itself: all but the producer's
Program ==
    Main \/ ReadJobFile \/ AcquireHandle \/ RetryAcquire \/ AcquisitionExhausted
    \/ FinishHandshake \/ StartJob \/ Next \/ DisposeSingle \/ MainReport
    \/ Scan \/ NextFile \/ DisposeWatch

\* the program runs on: main and the loop of watch are sequential code, and
\* the sleeps of lines 1149 and 1156 end, so a step that is possible is taken
SpecMainLive == SpecMain /\ WF_vars(Program)

(***************************************************************************)
(* DaVinci_Updated.py: MagnumStreamDaVinciAutomation.process_magnumstream_job *)
(*                                                                         *)
(* One job on a fresh object.  The variables keep their meaning; the ones  *)
(* this variant has no use for stay as they are.                           *)
(***************************************************************************)
\* the variables the Updated variant never writes
Updated_unused ==
    <<api, timeline_items, poolFile, replaced_slots, slots_needing_delete_add,
      verified, gate, purge, papi, render_timeout, decided, output_path, rendering,
      files, driverVars>>

\* the clips mappings: distinct keys among slots 1 and 2 of the table and a
\* slot without entry
Updated_Jobs ==
    {s \in UNION {[1..n -> {<<1>>, <<2>>, <<9>>}] : n \in 0..MaxClips} :
        \A i, j \in DOMAIN s : i # j => s[i] # s[j]}

\* the template of this variant: the placeholder of each slot of its table
Updated_IntactTimeline ==
    [s \in 1..Updated_NumSlots |->
        Item(s, Updated_StartFrames[s], Updated_StartFrames[s] + Updated_Durations[s],
             s, 0, TRUE)]

\* the template; the template without the placeholder of slot 2; the
\* template with the placeholder of slot 1 a dead reference (GetStart
\* answers None)
Updated_Timelines ==
    {Updated_IntactTimeline,
     SubSeq(Updated_IntactTimeline, 1, 1) \o SubSeq(Updated_IntactTimeline, 3, Updated_NumSlots),
     [Updated_IntactTimeline EXCEPT ![1].valid = FALSE]}

\* lines 228-238: the first item of the list with
\* item_start <= start_frame < item_end (0: no item); comparing None raises,
\* and the scan has no answer (None)
RECURSIVE Updated_FindTarget(_, _, _)
Updated_FindTarget(items, start_frame, i) ==
    IF i > Len(items) THEN 0
    ELSE LET item_start == GetStart(items[i])
             item_end == GetEnd(items[i])
         IN  IF item_start = None THEN None
             ELSE IF item_start <= start_frame /\ start_frame < item_end THEN i
             ELSE Updated_FindTarget(items, start_frame, i + 1)

\* lines 152-185
Updated_LoadTemplateProject ==
    /\ pc = "load"
    /\ \E lp \in BOOLEAN, found \in BOOLEAN :
         /\ calls' = Append(calls, Call("LoadProject", 0, 0, IF lp THEN 1 ELSE 0, 0))
         /\ current_project' = IF lp THEN 1 ELSE 0
         /\ self_timeline' = IF lp /\ found THEN Handle(1, TRUE) ELSE self_timeline
         /\ pc' = IF lp /\ found THEN "bin" ELSE "done"
         /\ result' = IF lp /\ found THEN "none" ELSE "False"
    /\ UNCHANGED <<clips, timeline, subfolders, fileState, media_items, idx, slotOutcome,
                   saved, rpc, job_id, status, appStatus>>
    /\ UNCHANGED Updated_unused

\* lines 190-196: the bin of the job
Updated_AddBin ==
    /\ pc = "bin"
    /\ calls' = calls \o <<Step("AddSubFolder"), Step("SetCurrentFolder")>>
    /\ subfolders' = subfolders \cup {<<"MagnumStream_", "20250102_000000">>}
    /\ pc' = "import"
    /\ idx' = 1
    /\ UNCHANGED <<clips, timeline, fileState, media_items, slotOutcome, saved, result,
                   rpc, job_id, status, appStatus, objectVars>>
    /\ UNCHANGED Updated_unused

\* lines 197-212: one iteration of the import loop
Updated_ImportClip ==
    /\ pc = "import"
    /\ idx <= Len(clips)
    /\ \E st \in FileStates :
         LET slot_num == IntOf(clips[idx]) IN
         /\ fileState' = Append(fileState, st)
         /\ calls' = IF st = "missing" THEN calls
                     ELSE Append(calls, Call("ImportMedia", slot_num, 0, idx, 0))
         /\ media_items' =
              IF st = "imported"
              THEN DictSet(media_items, slot_num,
                           [slot |-> slot_num, clip |-> idx, media |-> ImportedAsset(idx)])
              ELSE media_items
    /\ idx' = idx + 1
    /\ UNCHANGED <<pc, clips, timeline, subfolders, slotOutcome, saved, result,
                   rpc, job_id, status, appStatus, objectVars>>
    /\ UNCHANGED Updated_unused

\* line 215: the import loop is through, the replacement loop begins
Updated_BeginReplacement ==
    /\ pc = "import"
    /\ idx > Len(clips)
    /\ pc' = "replace"
    /\ idx' = 1
    /\ UNCHANGED <<clips, timeline, subfolders, fileState, media_items, slotOutcome,
                   saved, calls, result, rpc, job_id, status, appStatus, objectVars>>
    /\ UNCHANGED Updated_unused

\* what the iteration of a slot ended with
Updated_Outcome(slot, item, how) ==
    [slot |-> slot, item |-> item, by |-> IF how = "matched" THEN <<2>> ELSE << >>,
     how |-> how, exact |-> {}]

\* lines 215-257: one iteration of the replacement loop.  A slot without
\* entry in the table is skipped; the scan may raise, which ends the function
\* with False (lines 261-263); an item found gets the take, and the
\* iteration ends with a log line whatever AddTake answered.
Updated_ReplaceSlot ==
    /\ pc = "replace"
    /\ idx <= Len(media_items)
    /\ LET slot_num == media_items[idx].slot
           media == media_items[idx].media
       IN
       IF slot_num \notin DOMAIN Updated_CLIP_POSITIONS
       THEN /\ slotOutcome' = Append(slotOutcome, Updated_Outcome(slot_num, 0, "position-missing"))
            /\ idx' = idx + 1
            /\ UNCHANGED <<pc, timeline, calls, result>>
       ELSE LET position == Updated_CLIP_POSITIONS[slot_num]
                items == GetItemListInTrack(timeline, position.track)
                target == Updated_FindTarget(items, position.start_frame, 1)
                fetch == Call("GetItemListInTrack", slot_num, 0, 0, 0)
            IN
            IF target = None
            THEN /\ calls' = Append(calls, fetch)
                 /\ pc' = "done"
                 /\ result' = "False"
                 /\ UNCHANGED <<timeline, slotOutcome, idx>>
            ELSE IF target = 0
            THEN /\ calls' = Append(calls, fetch)
                 /\ slotOutcome' = Append(slotOutcome,
                                          Updated_Outcome(slot_num, 0, "position-missing"))
                 /\ idx' = idx + 1
                 /\ UNCHANGED <<pc, timeline, result>>
            ELSE \E added \in BOOLEAN :
                 LET id == items[target].id
                     props == <<fetch,
                                Call("SetClipProperty", slot_num, 0, 0, 0),
                                Call("SetClipProperty", slot_num, 0, position.duration_frames, 0),
                                Call("AddTake", slot_num, id, media, 0)>>
                     take_count == items[target].takes + 1
                 IN
                 /\ calls' = IF added
                             THEN calls \o props \o
                                  <<Call("GetTakesCount", slot_num, id, take_count, 0),
                                    Call("SelectTakeByIndex", slot_num, id, take_count, 0)>>
                             ELSE calls \o props
                 /\ timeline' = IF added THEN [timeline EXCEPT ![target].takes = take_count]
                                ELSE timeline
                 /\ slotOutcome' = Append(slotOutcome,
                        Updated_Outcome(slot_num, id,
                                        IF added THEN "matched" ELSE "replace-failed"))
                 /\ idx' = idx + 1
                 /\ UNCHANGED <<pc, result>>
    /\ UNCHANGED <<clips, subfolders, fileState, media_items, saved,
                   rpc, job_id, status, appStatus, objectVars>>
    /\ UNCHANGED Updated_unused

\* lines 259 and 131-136: after the loop _replace_clips_magnumstream returns
\* True, whatever the iterations ended with, and the job goes on to the save
Updated_EndReplacement ==
    /\ pc = "replace"
    /\ idx > Len(media_items)
    /\ pc' = "save"
    /\ result' = "none"
    /\ UNCHANGED <<clips, timeline, subfolders, fileState, media_items, idx, slotOutcome,
                   saved, calls, rpc, job_id, status, appStatus, objectVars>>
    /\ UNCHANGED Updated_unused

\* lines 265-281
Updated_SaveProject ==
    /\ pc = "save"
    /\ calls' = calls \o <<Step("SaveProject"), Step("SetName"), Step("SaveProject")>>
    /\ saved' = "True"
    /\ pc' = "render"
    /\ rpc' = "settings"
    /\ UNCHANGED <<clips, timeline, subfolders, fileState, media_items, idx, slotOutcome,
                   result, job_id, status, appStatus, objectVars>>
    /\ UNCHANGED Updated_unused

\* lines 283-324: settings, preset (its failure is swallowed, lines 309-313),
\* AddRenderJob and StartRendering; a falsy answer of either raises.  From
\* then on the application says of the job Rendering, Complete, Failed,
\* Cancelled, or answers no dict
Updated_StartRender ==
    /\ pc = "render"
    /\ rpc = "settings"
    /\ \E preset \in {"ok", "raise"}, add \in BOOLEAN, start \in {"None", "job1"},
          app \in {"Rendering", "Complete", "Failed", "Cancelled", "None"} :
         /\ calls' = calls \o <<Step("SetRenderSettings"), Step("LoadRenderPreset"),
                                 Step("AddRenderJob")>>
                     \o (IF add THEN <<Step("StartRendering")>> ELSE << >>)
         /\ IF add /\ start # "None"
            THEN /\ job_id' = start
                 /\ appStatus' = app
                 /\ rpc' = "wait"
                 /\ UNCHANGED <<pc, result>>
            ELSE /\ job_id' = IF add THEN start ELSE job_id
                 /\ rpc' = "returned"
                 /\ pc' = "done"
                 /\ result' = "False"
                 /\ UNCHANGED appStatus
    /\ UNCHANGED <<clips, timeline, subfolders, fileState, media_items, idx, slotOutcome,
                   saved, status, objectVars>>
    /\ UNCHANGED Updated_unused

\* lines 332-343: one query of the status; Complete ends the wait with
\* success, Failed and Cancelled raise, and so does a status that is no
\* dict; for every other status the loop goes on
Updated_PollRender ==
    /\ pc = "render"
    /\ rpc = "wait"
    /\ calls' = IF Called("GetRenderJobStatus") THEN calls
                ELSE Append(calls, Step("GetRenderJobStatus"))
    /\ status' = appStatus
    /\ IF appStatus \notin {"Complete", "Failed", "Cancelled", "None"}
       THEN rpc' = "sleep" /\ UNCHANGED <<pc, result>>
       ELSE /\ rpc' = "returned"
            /\ pc' = "done"
            /\ result' = IF appStatus = "Complete" THEN "True" ELSE "False"
    /\ UNCHANGED <<clips, timeline, subfolders, fileState, media_items, idx, slotOutcome,
                   saved, job_id, appStatus, objectVars>>
    /\ UNCHANGED Updated_unused

\* lines 341-343: the progress line and the sleep of two seconds
Updated_Sleep ==
    /\ pc = "render"
    /\ rpc = "sleep"
    /\ rpc' = "wait"
    /\ UNCHANGED <<pc, clips, timeline, subfolders, fileState, media_items, idx,
                   slotOutcome, saved, calls, result, job_id, status, appStatus,
                   objectVars>>
    /\ UNCHANGED Updated_unused

\* the application ends the render job
Updated_AppFinishes ==
    /\ pc = "render"
    /\ rpc \in {"wait", "sleep"}
    /\ appStatus = "Rendering"
    /\ appStatus' \in {"Complete", "Failed", "Cancelled"}
    /\ UNCHANGED <<pc, clips, timeline, subfolders, fileState, media_items, idx,
                   slotOutcome, saved, calls, result, rpc, job_id, status, objectVars>>
    /\ UNCHANGED Updated_unused

InitUpdated ==
    /\ pc = "load"
    /\ clips \in Updated_Jobs
    /\ api = ProbedMethods
    /\ timeline \in Updated_Timelines
    /\ NoJob
    /\ poolFile = [a \in TemplateAssets |-> 0]
    /\ subfolders = OtherBins
    /\ RenderIdle
    /\ DriverIdle
    /\ current_project = 0
    /\ self_timeline = NoTimeline

\* the steps of the code
Updated_Code ==
    Updated_LoadTemplateProject \/ Updated_AddBin \/ Updated_ImportClip
    \/ Updated_BeginReplacement \/ Updated_ReplaceSlot \/ Updated_EndReplacement
    \/ Updated_SaveProject \/ Updated_StartRender \/ Updated_PollRender \/ Updated_Sleep

NextUpdated == Updated_Code \/ Updated_AppFinishes

SpecUpdated == InitUpdated /\ [][NextUpdated]_vars

\* the code runs on: a step of process_magnumstream_job that is possible is
\* taken, and the sleep of line 343 ends
SpecUpdatedLive == SpecUpdated /\ WF_vars(Updated_Code)

(***************************************************************************)
(* Vocabulary of the properties                                            *)
(***************************************************************************)
RequestedSlots == {IntOf(clips[i]) : i \in DOMAIN clips}

ReplacedSet == Range(replaced_slots)

Occurrences(seq, x) == Cardinality({i \in DOMAIN seq : seq[i] = x})

TakeOps == {"FinalizeTake", "AddTake", "SelectTakeByIndex"}

PoolOps == {"GetMediaPoolItem", "PoolReplaceClip", "SetClipProperty"}

StrategyOps == {"ReplaceClip"} \cup TakeOps \cup PoolOps

\* the strategy a logged call belongs to
Rank(op) == IF op = "ReplaceClip" THEN 1 ELSE IF op \in TakeOps THEN 2 ELSE 3

StrategyCalls(slot) ==
    {i \in DOMAIN calls : calls[i].slot = slot /\ calls[i].op \in StrategyOps}

RanksTried(slot) == {Rank(calls[i].op) : i \in StrategyCalls(slot)}

SaveInvoked == Called("SaveProject")

RenderInvoked == Called("SetRenderSettings")

RenderOperationInvoked == Called("AddRenderJob") \/ Called("StartRendering")

LiveStartFrames == {timeline[i].start : i \in {j \in DOMAIN timeline : timeline[j].valid}}

(***************************************************************************)
(* Properties                                                              *)
(***************************************************************************)

\* C1: no partial render -- when a job has ended and some requested slot (a
\* key of its clips mapping) was not replaced, SaveProject, AddRenderJob and
\* StartRendering were never called and the job returned failure.
C1_NoPartialRender ==
    (pc = "done" /\ RequestedSlots \ ReplacedSet # {})
        => (~SaveInvoked /\ ~RenderOperationInvoked /\ result = "False")

\* the job requests at least one slot, every requested slot has a
\* SlotPosition, a file that imported, a live item and a strategy that
\* reported success, and the gate was evaluated
C2_Preconditions ==
    /\ gate # "none"
    /\ RequestedSlots # {}
    /\ RequestedSlots \subseteq DOMAIN CLIP_POSITIONS
    /\ \A i \in DOMAIN fileState : fileState[i] = "imported"
    /\ \A s \in RequestedSlots :
         \E j \in DOMAIN slotOutcome :
            slotOutcome[j].slot = s /\ slotOutcome[j].how = "matched"

\* C2 as stated: under these preconditions the gate passes and the job goes
\* on to save and then to render.
C2_GatePassesSaveAndRender ==
    (C2_Preconditions /\ pc = "done")
        => (gate = "True" /\ SaveInvoked /\ RenderInvoked)

\* C2 amended: under these preconditions the gate passes and the job goes on
\* to save; if the save succeeded it then goes on to render, after the save.
C2_GatePassesSaveThenRenderIfSaved ==
    C2_Preconditions =>
        /\ gate = "True"
        /\ pc \in {"render", "done"} => SaveInvoked
        /\ (pc = "done" /\ saved = "True") =>
              /\ RenderInvoked
              /\ \A i, j \in DOMAIN calls :
                    (calls[i].op = "SaveProject" /\ calls[j].op = "SetRenderSettings")
                        => i < j

C2_Witness ==
    /\ pc = "done"
    /\ C2_Preconditions
    /\ Cardinality(RequestedSlots) = 2
    /\ Called("StartRendering")
    /\ result = "path"

\* C3: a clip whose file is absent is skipped (no import, no mutation with
\* its media), the other slots are still processed, and the job then fails
\* the gate and returns failure.
C3_MediaNotFoundFailsJob ==
    \A i \in DOMAIN fileState :
        fileState[i] = "missing" =>
            /\ \A c \in DOMAIN calls :
                  /\ ~(calls[c].op = "ImportMedia" /\ calls[c].arg = i)
                  /\ ~(calls[c].op \in {"ReplaceClip", "AddTake"}
                       /\ calls[c].arg = ImportedAsset(i))
            /\ gate # "none" =>
                  (Len(slotOutcome) = Len(media_items) /\ gate = "False")
            /\ pc = "done" => result = "False"

\* C4: a slot that ends as position-missing or replace-failed does not stop
\* the loop -- when the gate is evaluated every imported slot has been
\* through its iteration (resolved, and attempted up to the last strategy
\* when it failed), the job has not returned before the gate, and the gate
\* fails the job when some slot failed.
C4_FailuresAccumulated ==
    /\ pc = "replace" => (result = "none" /\ gate = "none")
    /\ gate # "none" =>
         /\ Len(slotOutcome) = Len(media_items)
         /\ \A j \in DOMAIN slotOutcome :
               /\ slotOutcome[j].slot = media_items[j].slot
               /\ slotOutcome[j].slot \in DOMAIN CLIP_POSITIONS
                     => CallsFor("GetItemListInTrack", slotOutcome[j].slot) # {}
               /\ slotOutcome[j].how = "replace-failed"
                     => 3 \in RanksTried(slotOutcome[j].slot)
         /\ (\E j \in DOMAIN slotOutcome : slotOutcome[j].how # "matched")
               => (gate = "False" /\ result = "False")

C4_Witness ==
    /\ gate = "False"
    /\ Len(slotOutcome) = 2
    /\ slotOutcome[1].how = "replace-failed"
    /\ slotOutcome[2].how = "matched"

\* C5: the integrity check passes exactly when every start_frame of the
\* table is the start of a live item of the track; extra live frames do not
\* make it fail.
C5_IntegrityCheck ==
    (verified # "none" /\ pc \in {"cleanup", "done"} /\ gate = "none")
        => (verified = "True" <=> Range(StartFrames) \subseteq LiveStartFrames)

C5_Witness ==
    /\ pc = "cleanup"
    /\ verified = "True"
    /\ LiveStartFrames \ Range(StartFrames) # {}
    /\ Len(timeline) = NumSlots + 1

\* C6: when the integrity check fails the job ends there -- the only calls
\* made are those of the load and of the check, bins, media pool and
\* timeline are as they were, nothing was imported, and the job failed.
C6_AbortBeforeReplacement ==
    verified = "False" =>
        /\ pc = "done" /\ result = "False"
        /\ \A i \in DOMAIN calls : calls[i].op \in {"LoadProject", "GetItemListInTrack"}
        /\ subfolders = OtherBins \cup OldBins
        /\ CurrentBin \notin subfolders
        /\ media_items = << >>
        /\ fileState = << >>
        /\ timeline \in Timelines
        /\ poolFile = [a \in TemplateAssets |-> 0]

C6_Witness ==
    /\ verified = "False"
    /\ pc = "done"
    /\ clips # << >>
    /\ timeline # EmptyTimeline

\* C7: for each slot the calls of the strategies appear in the order 1, 2,
\* 3; a strategy is reached only after the available earlier ones were
\* called, no call of a later strategy follows the one that succeeded, and a
\* replaced slot is in replaced_slots exactly once.
C7_StrategyOrder ==
    /\ \A i, j \in DOMAIN calls :
          (i < j /\ calls[i].slot = calls[j].slot /\ calls[i].slot # 0
           /\ calls[i].op \in StrategyOps /\ calls[j].op \in StrategyOps)
              => Rank(calls[i].op) <= Rank(calls[j].op)
    /\ \A s \in RequestedSlots :
          /\ Cardinality(CallsFor("ReplaceClip", s)) <= 1
          /\ Cardinality(CallsFor("AddTake", s)) <= 1
          /\ Cardinality(CallsFor("GetMediaPoolItem", s)) <= 1
          /\ 2 \in RanksTried(s) => (HasAttr("ReplaceClip") => 1 \in RanksTried(s))
          /\ 3 \in RanksTried(s) =>
                /\ HasAttr("ReplaceClip") => 1 \in RanksTried(s)
                /\ HasAttr("AddTake") => 2 \in RanksTried(s)
    /\ \A j \in DOMAIN slotOutcome :
          LET o == slotOutcome[j] IN
          /\ Len(o.by) <= 1
          /\ o.how = "matched" <=> Len(o.by) = 1
          /\ o.how = "matched" =>
                /\ \A r \in RanksTried(o.slot) : r <= o.by[1]
                /\ Occurrences(replaced_slots, o.slot) = 1
          /\ o.how # "matched" => Occurrences(replaced_slots, o.slot) = 0

C7_Witness ==
    \E j \in DOMAIN slotOutcome :
        /\ slotOutcome[j].by = <<2>>
        /\ CallsFor("ReplaceClip", slotOutcome[j].slot) # {}
        /\ CallsFor("GetMediaPoolItem", slotOutcome[j].slot) = {}

\* C8: a call that repoints a media-pool asset (ReplaceClip or
\* SetClipProperty on the asset) is made only when the asset is used by no
\* timeline item other than the slot's own.
C8_SwapOnlyWhenExclusive ==
    \A i \in DOMAIN calls :
        calls[i].op \in {"PoolReplaceClip", "SetClipProperty"} => calls[i].users = 1

\* C9: DeleteClips and AppendToTimeline are never called, and for a slot
\* whose strategies all failed no call follows the calls of strategy 3.
C9_NoDeleteAndReinsert ==
    /\ ~Called("DeleteClips")
    /\ ~Called("AppendToTimeline")
    /\ \A j \in DOMAIN slotOutcome :
          slotOutcome[j].how = "replace-failed" =>
              \A c, d \in DOMAIN calls :
                  (calls[c].slot = slotOutcome[j].slot /\ calls[c].op = "GetMediaPoolItem"
                   /\ calls[d].slot = slotOutcome[j].slot /\ c < d)
                      => calls[d].op \in PoolOps

C9_Witness ==
    /\ pc = "done"
    /\ \E j \in DOMAIN slotOutcome :
          /\ slotOutcome[j].how = "replace-failed"
          /\ CallsFor("SetClipProperty", slotOutcome[j].slot) # {}

\* C10: no slot number is imported or taken through the replacement loop
\* more than once in a job -- a second key naming the same slot is rejected
\* before its import.
C10_RepeatedSlotRejected ==
    \A s \in RequestedSlots :
        /\ Cardinality(CallsFor("ImportMedia", s)) <= 1
        /\ Cardinality({j \in DOMAIN slotOutcome : slotOutcome[j].slot = s}) <= 1

\* C11: the item handed to the methods for a slot comes from an item list
\* fetched for that slot from the live timeline: the fetch is made after
\* every method call of the slots handled before it and before every method
\* call of the slot itself.
C11_FreshItemListPerSlot ==
    \A j \in DOMAIN slotOutcome :
        slotOutcome[j].item # 0 =>
            \E c \in CallsFor("GetItemListInTrack", slotOutcome[j].slot) :
                /\ \A i \in 1..(j - 1) :
                      \A d \in StrategyCalls(slotOutcome[i].slot) : d < c
                /\ \A d \in StrategyCalls(slotOutcome[j].slot) : c < d

C11_Witness ==
    /\ Len(slotOutcome) = 2
    /\ slotOutcome[1].by = <<1>>
    /\ timeline # timeline_items
    /\ slotOutcome[2].how = "matched"

\* C12: when the scanned list holds an item that starts exactly at the
\* frame of the slot, that item is the one handed to the methods, also when
\* another item of the list contains the frame.
C12_ExactMatchPreferred ==
    \A j \in DOMAIN slotOutcome :
        slotOutcome[j].exact # {} => slotOutcome[j].item \in slotOutcome[j].exact

\* C13: the slots go through the replacement loop in ascending numeric
\* order, whatever the order of the keys of clips.
C13_AscendingSlotOrder ==
    \A i, j \in DOMAIN slotOutcome :
        i < j => slotOutcome[i].slot < slotOutcome[j].slot

\* C14: the wait of _render_project ends whatever the application does --
\* the function returns, with a path or with failure, and no path is
\* returned once the accumulated wait has reached max_timeout.
C14_WaitTerminates ==
    /\ <>(rpc = "returned")
    /\ [](output_path # "none" => render_timeout < max_timeout)

\* C15: when the status the application reported in the last iteration is
\* Failed or Cancelled, _render_project returns failure and no path.
C15_FailedRenderReturnsFailure ==
    (rpc = "returned" /\ status \in {"Failed", "Cancelled"})
        => (output_path = "none" /\ result = "False")

\* C16: the output-file heuristic decides completion only when no status
\* mechanism is available, and when the status query by job id answered a
\* status, completion is decided from that status.
C16_PollingPreference ==
    /\ decided = "heuristic" => papi \cap StatusMethods = {}
    /\ (output_path # "none" /\ job_id = "id" /\ HasP("GetRenderJobStatus")
        /\ status # "None") => decided = "status"

\* the files the heuristic is to report complete: at or above the minimum
\* size, not grown at the second look, younger than the staleness bound
CompleteFiles(fs) ==
    {e \in ExtSet : fs[e].exists /\ fs[e].size >= MinSize /\ ~fs[e].grows
                    /\ fs[e].age < StaleAge}

\* an iteration of the wait loop in which, no status mechanism being
\* available, the heuristic looks at the files
HeuristicLooks ==
    /\ rpc = "wait"
    /\ papi \cap StatusMethods = {}
    /\ render_timeout < max_timeout
    /\ render_timeout % 10 = 0
    /\ rpc' # rpc \/ render_timeout' # render_timeout

\* C17: the heuristic does not report a file below the minimum size or a
\* file that grew between the two looks as complete; when a file is large
\* enough, unchanged and younger than the staleness bound, it reports
\* completion and returns the path of such a file; a path returned by the
\* heuristic is always that of such a file.
C17_CompletionHeuristic ==
    /\ [][HeuristicLooks =>
            /\ \A e \in ExtSet :
                  (files[e].exists /\ (files[e].size < MinSize \/ files[e].grows))
                      => output_path' # e
            /\ CompleteFiles(files) # {} =>
                  /\ rpc' = "returned"
                  /\ decided' = "heuristic"
                  /\ output_path' \in CompleteFiles(files)
            /\ CompleteFiles(files) = {} => rpc' = "wait"]_vars
    /\ [](decided = "heuristic" => output_path \in CompleteFiles(files))

C17_Witness ==
    /\ decided = "heuristic"
    /\ papi \cap StatusMethods = {}
    /\ render_timeout >= 10
    /\ output_path = "mp4"
    /\ result = "path"

\* C18: the path of a file whose age exceeds the staleness bound is never
\* returned, on any branch of _render_project.
C18_StaleFileNeverReturned ==
    output_path # "none" => files[output_path].age <= StaleAge

\* C19: when AddRenderJob is called, the queue clearing (where the method
\* exists) and the unlink of every file found at the target path were
\* called before it; a file still there was tried; and after a clean-up
\* call that raised, the function goes on to AddRenderJob.
C19_CleanupBeforeEnqueue ==
    /\ Called("AddRenderJob") =>
          /\ HasP("DeleteAllRenderJobs") =>
                \E i, j \in DOMAIN calls :
                    /\ calls[i].op = "DeleteAllRenderJobs"
                    /\ calls[j].op = "AddRenderJob"
                    /\ i < j
          /\ \A k, j \in DOMAIN calls :
                (calls[k].op = "unlink" /\ calls[j].op = "AddRenderJob") => k < j
    /\ rpc = "enqueue" =>
          \A e \in ExtSet :
              files[e].exists =>
                  \E k \in DOMAIN calls :
                      calls[k].op = "unlink" /\ Exts[calls[k].item] = e
    /\ (\E k \in DOMAIN calls :
            calls[k].op \in {"DeleteAllRenderJobs", "unlink"} /\ calls[k].arg = 1)
          => /\ rpc \in {"files", "enqueue", "wait", "returned"}
             /\ rpc = "returned" => Called("AddRenderJob")

C19_Witness ==
    /\ Called("StartRendering")
    /\ \E k \in DOMAIN calls : calls[k].op = "DeleteAllRenderJobs" /\ calls[k].arg = 1
    /\ \E k \in DOMAIN calls : calls[k].op = "unlink" /\ calls[k].arg = 1
    /\ \E k \in DOMAIN calls : calls[k].op = "unlink" /\ calls[k].arg = 0

\* the job has begun its replacement work: its bin, an import, or a call
\* of a replacement method
WorkBegun ==
    \E i \in DOMAIN calls :
        calls[i].op \in {"AddSubFolder", "ImportMedia"} \cup StrategyOps

\* C20 as stated: once the replacement work has begun no bin of an earlier
\* run is left, the bin of the job is there, and a purge that failed has
\* not ended the job.
C20_OldBinsPurged ==
    /\ WorkBegun => OldClipBins(subfolders) \subseteq {CurrentBin}
    /\ Called("AddSubFolder") => CurrentBin \in subfolders
    /\ purge \in {"refused", "raise"} => (pc # "done" \/ Called("AddSubFolder"))

\* C20 amended: once the replacement work has begun the purge has run, its
\* calls come before those of the work, and when it met no failure no bin
\* of an earlier run is left; the bin of the job is there, and a purge that
\* failed has not ended the job.
C20_PurgeAttemptedBeforeWork ==
    /\ WorkBegun => purge # "none"
    /\ \A i, j \in DOMAIN calls :
          (calls[i].op \in {"MediaPoolDeleteClips", "DeleteFolders"}
           /\ calls[j].op \in {"AddSubFolder", "ImportMedia"} \cup StrategyOps)
              => i < j
    /\ (WorkBegun /\ purge = "ok") => OldClipBins(subfolders) \subseteq {CurrentBin}
    /\ purge \in {"ok", "refused"} => Called("DeleteFolders")
    /\ Called("AddSubFolder") => CurrentBin \in subfolders
    /\ purge \in {"refused", "raise"} => (pc # "done" \/ Called("AddSubFolder"))

C20_Witness ==
    /\ purge = "refused"
    /\ OldBins \subseteq subfolders
    /\ CurrentBin \in subfolders
    /\ ReplacedSet # {}
    /\ result = "path"

\* C27: a slot counts as replaced by the take strategy only when AddTake was
\* called on its item, the take count was read after it, and
\* SelectTakeByIndex was called with that count; no FinalizeTake of the slot
\* lies between AddTake and the selection, and where FinalizeTake exists it
\* is called after the selection.
C27_TakeAddSelectFinalize ==
    \A j \in DOMAIN slotOutcome :
        LET o == slotOutcome[j] IN
        o.by = <<2>> =>
            \E a \in CallsFor("AddTake", o.slot) :
                /\ a + 2 <= Len(calls)
                /\ calls[a + 1].op = "GetTakesCount"
                /\ calls[a + 2].op = "SelectTakeByIndex"
                /\ calls[a + 2].slot = o.slot
                /\ calls[a + 2].item = calls[a].item
                /\ calls[a + 2].arg = calls[a + 1].arg
                /\ \A f \in CallsFor("FinalizeTake", o.slot) : f < a \/ f > a + 2
                /\ HasAttr("FinalizeTake") =>
                      \E f \in CallsFor("FinalizeTake", o.slot) : f > a + 2

\* a slot replaced by the take strategy whose item had a take before
C27_Witness ==
    \E j \in DOMAIN slotOutcome :
        /\ slotOutcome[j].by = <<2>>
        /\ \E a \in CallsFor("AddTake", slotOutcome[j].slot) :
              /\ \E f \in CallsFor("FinalizeTake", slotOutcome[j].slot) : f < a
              /\ \E f \in CallsFor("FinalizeTake", slotOutcome[j].slot) : f > a

\* the calls of the render step
RenderOps == {"SetRenderSettings", "LoadRenderPreset", "DeleteAllRenderJobs",
              "AddRenderJob", "StartRendering"}

\* C28: the calls of a job lie in the order load, integrity check,
\* replacement, save, render, and a step is called only when every step
\* before it succeeded: anything after LoadProject needs a loaded project,
\* anything after the integrity check needs it passed, SaveProject needs the
\* replacement step to have returned True and the render calls need the save
\* to have returned True; a path is returned only after all five.
C28_StepsInOrder ==
    /\ calls # << >> => calls[1].op = "LoadProject"
    /\ Len(calls) >= 2 =>
          /\ calls[1].arg = 1
          /\ calls[2].op = "GetItemListInTrack"
          /\ verified # "none"
    /\ Len(calls) >= 3 => verified = "True"
    /\ \A i \in DOMAIN calls :
          /\ calls[i].op = "LoadProject" => i = 1
          /\ calls[i].op = "SaveProject" =>
                /\ gate = "True" /\ verified = "True"
                /\ \A j \in DOMAIN calls :
                      /\ j < i => calls[j].op \notin RenderOps \cup {"SaveProject"}
                      /\ j > i => calls[j].op \in RenderOps
          /\ calls[i].op \in RenderOps =>
                /\ saved = "True" /\ gate = "True" /\ verified = "True"
                /\ \E j \in 1..(i - 1) : calls[j].op = "SaveProject"
    /\ gate # "none" => verified = "True"
    /\ saved # "none" => gate = "True"
    /\ result = "path" => saved = "True" /\ Called("StartRendering")

\* a job that went through all five steps and returned the path
C28_Witness ==
    /\ result = "path"
    /\ calls[1].op = "LoadProject"
    /\ Called("SaveProject")
    /\ Called("StartRendering")

\* C29: when the status query by job id answered Complete in the last
\* iteration of the wait, _render_project has returned the .mp4 path, and
\* before the accumulated wait reached max_timeout.
C29_CompleteReturnsPath ==
    (rpc = "returned" /\ job_id = "id" /\ HasP("GetRenderJobStatus")
     /\ status = "Complete")
        => (output_path = "mp4" /\ result = "path" /\ render_timeout < max_timeout)

\* C30: when AddRenderJob answered nothing or raised, StartRendering is not
\* called, the wait loop is not entered and _render_project returns failure.
C30_NoJobNoRender ==
    (Called("AddRenderJob") /\ job_id = "None") =>
        /\ ~Called("StartRendering")
        /\ rpc = "returned"
        /\ decided = "exception"
        /\ output_path = "none"
        /\ result = "False"
        /\ render_timeout = 0
        /\ status = "None"

\* AddRenderJob was called and gave no job
C30_Witness ==
    /\ Called("AddRenderJob")
    /\ job_id = "None"
    /\ rpc = "returned"
    /\ Called("SetRenderSettings")

\* no two slots of a SlotPosition table share a start frame
PairwiseDistinct(table) ==
    \A a, b \in DOMAIN table : a # b => table[a].start_frame # table[b].start_frame

\* C26: in the table of Davinci.py and in the table of DaVinci_Updated.py
\* the start frames are pairwise distinct, so the slots a job was given
\* imports for are looked up at different frames.
C26_StartFramesDistinct ==
    /\ PairwiseDistinct(CLIP_POSITIONS)
    /\ PairwiseDistinct(Updated_CLIP_POSITIONS)
    /\ \A i, j \in DOMAIN media_items :
          (/\ media_items[i].slot \in DOMAIN CLIP_POSITIONS
           /\ media_items[j].slot \in DOMAIN CLIP_POSITIONS
           /\ media_items[i].slot # media_items[j].slot)
              => CLIP_POSITIONS[media_items[i].slot].start_frame
                     # CLIP_POSITIONS[media_items[j].slot].start_frame

\* two slots of the table were looked up in one job and found on two items
C26_Witness ==
    \E i, j \in DOMAIN slotOutcome :
        /\ slotOutcome[i].slot # slotOutcome[j].slot
        /\ slotOutcome[i].how = "matched"
        /\ slotOutcome[j].how = "matched"
        /\ slotOutcome[i].item # slotOutcome[j].item

\* what the driver logged
Logged(ev) == {i \in DOMAIN events : events[i].ev = ev}

ConnectFailed == Logged("connect-failed") # {}

\* process_job returned a path for the file
Succeeded(f) ==
    \E i \in Logged("returned") : events[i].file = f /\ events[i].ans = "path"

\* C21: the retry loop makes at most RetryLimit iterations and goes on only
\* while there is no handle; it gives up only after RetryLimit iterations;
\* when the handshake failed (no handle, no project manager) the process has
\* exited with code 1, process_job was never called, no call was made to the
\* application and no job file was touched; process_job runs only with a
\* handle and a project manager.
C21_HandshakeBoundedAndFatal ==
    /\ attempt \in 0..RetryLimit
    /\ mpc \in {"connect", "retry"} => resolve = "None"
    /\ \A i \in Logged("connect-failed") :
          events[i].ans = "no handle" => attempt = RetryLimit /\ resolve = "None"
    /\ ConnectFailed =>
          /\ mpc = "exited"
          /\ exit_code = 1
          /\ resolve = "None" \/ project_manager = "None"
          /\ pc = "idle"
          /\ NoJob
          /\ Logged("process_job") = {}
          /\ \A f \in FileIds : where[f] \notin {"completed", "error"}
    /\ (pc # "idle" \/ mpc \in {"process", "job", "scan", "loop"}) =>
          resolve = "handle" /\ project_manager = "pm"

\* every iteration of the retry loop was made and none gave a handle
C21_Witness ==
    /\ \E i \in Logged("connect-failed") : events[i].ans = "no handle"
    /\ attempt = RetryLimit
    /\ mpc = "exited"
    /\ exit_code = 1

\* C22: with the handle and the project manager obtained the handshake
\* succeeds, however the minimize step ended: no connection failure is
\* logged, the process has not exited with the failure code of the
\* handshake, and the caller goes on.
C22_MinimizeNeverFatal ==
    /\ \A i \in Logged("connect-failed") :
          events[i].ans # "minimize" /\ project_manager = "None"
    /\ (resolve = "handle" /\ project_manager = "pm") =>
          /\ ~ConnectFailed
          /\ Logged("connected") # {}
    /\ \A i \in Logged("connected") :
          /\ events[i].ans \in MinimizeOutcomes
          /\ resolve = "handle" /\ project_manager = "pm"
          /\ mpc \notin {"main", "read", "connect", "retry", "manager"}
          /\ mpc = "exited" => mode = "job-file" /\ printed # "none"

\* the minimize tool was missing, and process_job was called all the same
C22_Witness ==
    /\ \E i \in Logged("connected") : events[i].ans = "missing"
    /\ Logged("process_job") # {}

C24_FileDisposition ==
    \A f \in handled :
        /\ where[f] = "completed" <=> Succeeded(f)
        /\ ~Succeeded(f) => where[f] = "error"
        /\ where[f] # "queue"

ImportedSlots == {media_items[i].slot : i \in DOMAIN media_items}

\* C33: once the gate has answered, it answered True exactly when the set of
\* replaced slots is the set of imported slots; at any time replaced_slots
\* holds no slot twice and only imported slots.
C33_GateIffAllImportedReplaced ==
    /\ \A i, j \in DOMAIN replaced_slots : i # j => replaced_slots[i] # replaced_slots[j]
    /\ ReplacedSet \subseteq ImportedSlots
    /\ gate # "none" => (gate = "True" <=> ReplacedSet = ImportedSlots)

\* the gate refused a job with two imported slots of which one was replaced
C33_Witness ==
    /\ gate = "False"
    /\ Cardinality(ImportedSlots) = 2
    /\ Cardinality(ReplacedSet) = 1

\* C34: a job of which no slot was replaced reaches neither SaveProject nor
\* the render calls.
C34_NothingReplacedNoSave ==
    (gate # "none" /\ replaced_slots = << >>) => (~SaveInvoked /\ ~RenderInvoked)

\* C35: two different slots of one job are never handed the same timeline
\* item.
C35_DistinctTargets ==
    \A i, j \in DOMAIN slotOutcome :
        (/\ slotOutcome[i].slot # slotOutcome[j].slot
         /\ slotOutcome[i].item # 0
         /\ slotOutcome[j].item # 0)
            => slotOutcome[i].item # slotOutcome[j].item

\* start and end of every item of a track
FramesOf(tl) == [i \in DOMAIN tl |-> <<tl[i].start, tl[i].end>>]

\* no replacement has moved or resized an item of the template
FramesUnchanged == FramesOf(timeline) \in {FramesOf(t) : t \in Timelines}

\* C37: when the integrity check passed and the items still have the frames
\* of the template, no slot of the table ends its iteration without a
\* timeline item.
C37_VerifiedSlotsResolve ==
    (verified = "True" /\ FramesUnchanged) =>
        \A j \in DOMAIN slotOutcome :
            slotOutcome[j].slot \in DOMAIN CLIP_POSITIONS
                => slotOutcome[j].how # "position-missing"

\* two slots of the table went through the loop on a verified template whose
\* frames are unchanged, and both found their item
C37_Witness ==
    /\ verified = "True"
    /\ FramesUnchanged
    /\ Len(slotOutcome) = 2
    /\ \A j \in DOMAIN slotOutcome :
          slotOutcome[j].item # 0 /\ slotOutcome[j].slot \in DOMAIN CLIP_POSITIONS

\* C38: for a slot on which AddTake was called and which does not count as
\* replaced by the take strategy, no take was added (the count was not read
\* after AddTake) and no FinalizeTake was called on the item.
C38_FailedTakeLeavesItem ==
    \A j \in DOMAIN slotOutcome :
        LET o == slotOutcome[j] IN
        (CallsFor("AddTake", o.slot) # {} /\ o.by # <<2>>) =>
            /\ CallsFor("FinalizeTake", o.slot) = {}
            /\ \A a \in CallsFor("AddTake", o.slot) :
                  a + 1 <= Len(calls) => calls[a + 1].op # "GetTakesCount"

\* the steps of process_job that read or edit the timeline
TimelineSteps == {"verify", "cleanup", "bin", "import", "replace"}

\* C36: in watch mode, while the integrity check and the replacement of a
\* job run, self.timeline belongs to the project that the load of this job
\* returned.
C36_TimelineOfThisLoad ==
    (mode = "watch" /\ pc \in TimelineSteps) =>
        /\ current_project = LoadId
        /\ self_timeline.project = current_project

\* the watcher runs: watch mode, after the handshake
Watching == mode = "watch" /\ Logged("connected") # {}

\* the job of the file was given to process_job
Passed(f) == \E i \in Logged("process_job") : events[i].file = f

\* C39: in watch mode every file of the folder that holds a readable job is
\* eventually given to process_job.
C39_EveryJobPassed ==
    \A f \in FileIds :
        (Watching /\ where[f] = "queue" /\ content[f].readable) ~> Passed(f)

\* the slots of the keys of the job
Updated_Requested == {IntOf(clips[i]) : i \in DOMAIN clips}

\* the slot went through the loop and got its take
Updated_Replaced(k) ==
    \E j \in DOMAIN slotOutcome : slotOutcome[j].slot = k /\ slotOutcome[j].how = "matched"

\* C31: in the Updated variant SaveProject and the render calls are made only
\* when every slot the job asked for was replaced.
C31_UpdatedNoPartialSave ==
    (SaveInvoked \/ RenderInvoked) => \A k \in Updated_Requested : Updated_Replaced(k)

\* C32: in the Updated variant the wait for the render job ends, whatever
\* the application reports: process_magnumstream_job returns.
C32_UpdatedWaitEnds == (rpc = "wait") ~> (pc = "done")

====
